---- MODULE Spec2Model ----
(***************************************************************************)
(* Inscription transaction planner of OmniBTC/ordDev: the repeat-mint      *)
(* planner (subcommand/wallet/mint.rs) and the batch-mint planner          *)
(* (subcommand/wallet/mints.rs).  One planner invocation is followed from  *)
(* Mint::build through create_inscription_transactions (anchor selection,  *)
(* sizing pass, commit pass, building pass) to the result envelope.        *)
(* Further down: the transfer planner (transfer.rs), the cancel and burt   *)
(* planners (cancel.rs, burt.rs), the HTTP shim (server/main.rs), the      *)
(* reorg binary (reorg/main.rs), two mint invocations at once and two      *)
(* HTTP requests at once, each with a specification of its own over the    *)
(* same variables.                                                         *)
(***************************************************************************)
EXTENDS Integers, Sequences, FiniteSets, TLC

VARIABLES
  req,                 \* the request and the collaborators' views (read-only)
  pc,                  \* position of the invocation
  i,                   \* loop position of the sizing / building pass
  utxos,               \* wallet view fetched by Mint::build
  inscriptions,        \* inscription index fetched by Mint::build
  satpoint,            \* funding anchor
  reveal_fees,         \* Vec<Amount> of the sizing pass
  next_remain_fees,    \* Vec<Amount> of the sizing pass (mint.rs only)
  sized,               \* skeleton outputs handed to the sizing pass, by push order
  service_fee,         \* total service fee used by create_inscription_transactions
  commit_value,        \* value requested from build_transaction_with_value
  unsigned_commit_tx,  \* the commit transaction
  commit_vout,         \* index of the commit output found in the commit tx
  reveal_txs,          \* Vec<Transaction> of the building pass
  key_pair,            \* the ephemeral reveal key (0 before it is generated)
  result,              \* what the planner's build returns
  satpoints,           \* anchors of a transfer, primary first
  amount,              \* destination value requested by a transfer
  remain_outpoint,     \* outpoints whitelisted in the UTXO view query
  lookups,             \* ids handed to the id-to-satpoint lookup, in call order
  unsigned_transaction,\* transaction of a transfer, a cancel or a burt
  response,            \* HTTP response of the shim
  suspended            \* the other in-flight mint invocation, while it does not run

vars == <<req, pc, i, utxos, inscriptions, satpoint, reveal_fees,
          next_remain_fees, sized, service_fee, commit_value,
          unsigned_commit_tx, commit_vout, reveal_txs, key_pair, result,
          satpoints, amount, remain_outpoint, lookups, unsigned_transaction,
          response, suspended>>

\* what only the mint planners write
mint_vars == <<i, satpoint, reveal_fees, next_remain_fees, sized, service_fee,
               commit_value, unsigned_commit_tx, commit_vout, reveal_txs,
               key_pair>>

\* what the mint planners leave alone
other_vars == <<satpoints, amount, remain_outpoint, lookups,
                unsigned_transaction, response, suspended>>

(***************************************************************************)
(* Bounds of the model and constants of the program.                       *)
(***************************************************************************)
\* largest repeat count / number of batch contents explored
MaxRepeat == 3

\* TransactionBuilder::TARGET_POSTAGE
TARGET_POSTAGE == 10000

\* Mint::SERVICE_FEE
SERVICE_FEE == 3000

\* anti-dust floor of the total service fee (mints.rs)
MIN_SERVICE_FEE == 600

\* bitcoin::policy::MAX_STANDARD_TX_WEIGHT
MAX_STANDARD_TX_WEIGHT == 400000

(***************************************************************************)
(* Generic helpers.                                                        *)
(***************************************************************************)
Reverse(s) == [k \in 1..Len(s) |-> s[Len(s) + 1 - k]]

RECURSIVE SumSeq(_)
SumSeq(s) == IF s = <<>> THEN 0 ELSE Head(s) + SumSeq(Tail(s))

RECURSIVE Flatten(_)
Flatten(ss) == IF ss = <<>> THEN <<>> ELSE Head(ss) \o Flatten(Tail(ss))

Last(s) == s[Len(s)]

(***************************************************************************)
(* Addresses and scripts.  An address is its type tag, an identity and     *)
(* whether it is valid for the configured network.  Option::None is the    *)
(* address of type "none".                                                 *)
(***************************************************************************)
Addr(t, n, ok) == [type |-> t, id |-> n, net_ok |-> ok]

NoAddr == Addr("none", 0, FALSE)

TypeCode(t) ==
  CASE t = "P2PKH" -> 1
    [] t = "P2SH" -> 2
    [] t = "P2WPKH" -> 3
    [] t = "P2TR" -> 4
    [] OTHER -> 0

\* Address::script_pubkey: the locking script, as <<type code, payload>>
script_pubkey(a) == <<TypeCode(a.type), a.id>>

\* serialized length in bytes of a standard locking script
ScriptPubkeyLen(s) ==
  CASE s[1] = 1 -> 25
    [] s[1] = 2 -> 23
    [] s[1] = 3 -> 22
    [] s[1] = 4 -> 34
    [] OTHER -> 0

\* Script::dust_value of rust-bitcoin: 3 sat/vB on output size plus the size
\* of the input spending it (witness programs get the segwit discount)
dust_value(s) ==
  IF s[1] \in {3, 4}
    THEN (32 + 4 + 1 + 26 + 4 + 8 + 1 + ScriptPubkeyLen(s)) * 3
    ELSE (32 + 4 + 1 + 107 + 4 + 8 + 1 + ScriptPubkeyLen(s)) * 3

TxOut(s, v) == [script_pubkey |-> s, value |-> v]

(***************************************************************************)
(* Inscriptions, reveal scripts and the taproot commitment.                *)
(***************************************************************************)
\* content ids of the model and their byte lengths: content 0 is large
\* enough for a reveal to exceed MAX_STANDARD_TX_WEIGHT, the others are
\* small and of different lengths ("hi" is content 1)
Contents == 0..MaxRepeat

ContentLen(c) == IF c = 0 THEN 400000 ELSE 100 * c - 98

\* bytes of a data push of n bytes
PushLen(n) ==
  IF n = 0 THEN 0
  ELSE IF n <= 75 THEN 1 + n
  ELSE IF n <= 255 THEN 2 + n
  ELSE 3 + n

\* Inscription::append_reveal_script: <P> OP_CHECKSIG OP_FALSE OP_IF "ord"
\* 1 <content type> 0 <content in chunks of 520> OP_ENDIF
append_reveal_script(key, c) == [key |-> key, content |-> c]

RevealScriptLen(script) ==
  LET n == ContentLen(script.content)
  IN  33 + 1 + 2 + 4 + 2 + 25 + 1
      + (n \div 520) * 523 + PushLen(n % 520) + 1

\* TaprootBuilder::finalize(..).output_key(): the tweaked key commits to the
\* internal key and to the single leaf (an injective stand-in for the hash)
output_key(key, script) == 100 + 10 * key + script.content

\* Address::p2tr_tweaked
p2tr_tweaked(k) == Addr("P2TR", k, TRUE)

\* control block of the single leaf: leaf version, parity, internal key
control_block_of(key, script) == [kind |-> "control", internal_key |-> key]

(***************************************************************************)
(* Transactions.  A txid is the hash of the serialization without witness; *)
(* the model takes the serialization itself (a sequence of naturals), so   *)
(* two transactions share a txid exactly when they serialize alike.        *)
(***************************************************************************)
OutPoint(t, v) == [txid |-> t, vout |-> v]

\* OutPoint::null(): the all-zero txid and vout u32::MAX (written as the
\* largest vout TLC's 32-bit integers hold; no planned output reaches it)
NullOutPoint == OutPoint(<<0>>, 2147483647)

SerIn(inp) == <<Len(inp.previous_output.txid)>> \o inp.previous_output.txid
              \o <<inp.previous_output.vout>>

SerOut(o) == <<o.value, Len(o.script_pubkey)>> \o o.script_pubkey

Txid(tx) ==
  <<tx.version, Len(tx.input)>>
    \o Flatten([k \in 1..Len(tx.input) |-> SerIn(tx.input[k])])
    \o <<Len(tx.output)>>
    \o Flatten([k \in 1..Len(tx.output) |-> SerOut(tx.output[k])])

VarIntLen(n) == IF n < 253 THEN 1 ELSE IF n <= 65535 THEN 3 ELSE 5

WitnessItemLen(w) ==
  CASE w.kind = "sig" -> 64
    [] w.kind = "script" -> RevealScriptLen(w.script)
    [] w.kind = "control" -> 33
    [] w.kind = "p2wpkh" -> 105
    [] OTHER -> 0

WitnessLen(ws) ==
  1 + SumSeq([k \in 1..Len(ws) |->
                VarIntLen(WitnessItemLen(ws[k])) + WitnessItemLen(ws[k])])

BaseSize(tx) ==
  4 + 1 + 41 * Len(tx.input) + 1
    + SumSeq([k \in 1..Len(tx.output) |->
                9 + ScriptPubkeyLen(tx.output[k].script_pubkey)])
    + 4

HasWitness(tx) == \E k \in 1..Len(tx.input) : tx.input[k].witness # <<>>

\* Transaction::weight (BIP141)
Weight(tx) ==
  IF HasWitness(tx)
    THEN 4 * BaseSize(tx) + 2
         + SumSeq([k \in 1..Len(tx.input) |-> WitnessLen(tx.input[k].witness)])
    ELSE 4 * BaseSize(tx)

\* Transaction::vsize
VSize(tx) == (Weight(tx) + 3) \div 4

\* FeeRate::fee: ceil(vsize * rate), the rate being a whole number here
Fee(rate, vsize) == rate * vsize

TxIn(op, w) == [previous_output |-> op, witness |-> w]

Tx(ins, outs) == [version |-> 1, input |-> ins, output |-> outs]

NoTx == Tx(<<>>, <<>>)

(***************************************************************************)
(* The requests explored and the views the collaborators serve.            *)
(***************************************************************************)
Some(v) == [some |-> TRUE, v |-> v]

None == [some |-> FALSE, v |-> 0]

unwrap_or(o, d) == IF o.some THEN o.v ELSE d

Sources ==
  {Addr("P2TR", 1, TRUE), Addr("P2WPKH", 1, TRUE), Addr("P2SH", 1, TRUE),
   Addr("P2TR", 1, FALSE)}

Destinations == {NoAddr, Addr("P2WPKH", 2, TRUE), Addr("P2TR", 2, FALSE)}

ServiceAddresses == {NoAddr, Addr("P2TR", 3, TRUE)}

\* configured per-inscription service fee: unset, zero, or below the floor
ServiceFees == {None, Some(0), Some(100)}

FeeRates == {1, 2}

\* no SQL handle, a handle, a handle that whitelists the source
Mysqls == {"none", "plain", "whitelist"}

Utxo(t, v, amt) == [outpoint |-> OutPoint(<<t>>, v), amount |-> amt]

Inscribed(t, v, off, id) ==
  [satpoint |-> [outpoint |-> OutPoint(<<t>>, v), offset |-> off], id |-> id]

\* wallet views, each BTreeMap in key order
Wallets ==
  {[utxos |-> <<>>, inscriptions |-> <<>>],
   [utxos |-> <<Utxo(11, 0, 1000000)>>, inscriptions |-> <<>>],
   [utxos |-> <<Utxo(11, 0, 10000)>>,
    inscriptions |-> <<Inscribed(11, 0, 0, 1)>>],
   [utxos |-> <<Utxo(11, 0, 10000), Utxo(12, 0, 1000000)>>,
    inscriptions |-> <<Inscribed(11, 0, 0, 1)>>],
   [utxos |-> <<Utxo(11, 0, 30000), Utxo(12, 1, 40000)>>,
    inscriptions |-> <<>>]}

Repeats == {None} \cup {Some(n) : n \in 0..MaxRepeat}

\* the content of a repeat-mint: the small "hi" or the large one
MintContents == {0, 1}

\* the contents of a batch-mint: the large content anywhere, and the small
\* contents named in order of first use (lists that differ only by renaming
\* the small contents are explored once); repeated contents are included
InOrderOfFirstUse(l) ==
  \A k \in 1..Len(l) :
    l[k] # 0 => \A c \in 1..(l[k] - 1) : \E j \in 1..(k - 1) : l[j] = c

ContentLists ==
  {l \in UNION {[1..n -> Contents] : n \in 0..MaxRepeat} : InOrderOfFirstUse(l)}

\* what varies from request to request besides the content
Common ==
  [source : Sources, destination : Destinations,
   service_address : ServiceAddresses, service_fee : ServiceFees,
   fee_rate : FeeRates, mysql : Mysqls, wallet : Wallets]

MintRequest(c, content, repeat) ==
  [kind |-> "mint", content |-> content, repeat |-> repeat,
   source |-> c.source, destination |-> c.destination,
   service_address |-> c.service_address, service_fee |-> c.service_fee,
   fee_rate |-> c.fee_rate, mysql |-> c.mysql, wallet |-> c.wallet]

MintsRequest(c, contents) ==
  [MintRequest(c, contents, None) EXCEPT !.kind = "mints"]

(***************************************************************************)
(* Values derived from the request by Mint::build.                         *)
(***************************************************************************)
\* mint.rs:58 / mints.rs:320
Repeat ==
  IF req.kind = "mint" THEN unwrap_or(req.repeat, 1) ELSE Len(req.content)

\* mint.rs:68 / mints.rs:72
reveal_tx_destination ==
  IF req.destination = NoAddr THEN req.source ELSE req.destination

\* mint.rs:81 / mints.rs:102
ServiceAddress ==
  IF req.service_address = NoAddr THEN req.source ELSE req.service_address

\* mints.rs:108-116: the whitelist is consulted only through the SQL handle
is_whitelist == req.kind = "mints" /\ req.mysql = "whitelist"

\* mint.rs:117 / mints.rs:120-124: the per-inscription fee handed to
\* create_inscription_transactions
PerMintServiceFee ==
  IF is_whitelist THEN 0 ELSE unwrap_or(req.service_fee, SERVICE_FEE)

\* mints.rs:85-100
AddressTypeOk(a) == a.type \in {"P2TR", "P2WPKH"}

(***************************************************************************)
(* TransactionBuilder::build_transaction_with_value (spec 4.3, 4.4): the   *)
(* anchor is the first input, cardinal UTXOs are added in key order until  *)
(* the inputs cover value + fee, output 0 pays the recipient `value`, the  *)
(* remainder is change to change[0] unless it is dust.                     *)
(***************************************************************************)
InscribedOutpoints(inscr) ==
  {inscr[k].satpoint.outpoint : k \in 1..Len(inscr)}

PlaceholderWitness(input_type) ==
  IF input_type = "P2WPKH" THEN <<[kind |-> "p2wpkh"]>> ELSE <<[kind |-> "sig"]>>

UnsignedInputs(us) == [k \in 1..Len(us) |-> TxIn(us[k].outpoint, <<>>)]

CommitFee(input_type, n, outs, rate) ==
  Fee(rate,
      VSize(Tx([k \in 1..n |-> TxIn(NullOutPoint, PlaceholderWitness(input_type))],
               outs)))

build_transaction_with_value(input_type, sp, inscr, ut, recipient, change, fee_rate, value) ==
  LET IsAnchor(u) == u.outpoint = sp.outpoint
      IsCardinal(u) ==
        u.outpoint # sp.outpoint /\ u.outpoint \notin InscribedOutpoints(inscr)
      pool == SelectSeq(ut, IsAnchor) \o SelectSeq(ut, IsCardinal)
      pay == <<TxOut(script_pubkey(recipient), value)>>
      both(c) == pay \o <<TxOut(script_pubkey(change[1]), c)>>
      Total(n) == SumSeq([k \in 1..n |-> pool[k].amount])
      Covers(n) == Total(n) >= value + CommitFee(input_type, n, pay, fee_rate)
      enough == {n \in 1..Len(pool) : Covers(n)}
  IN  IF SelectSeq(ut, IsAnchor) = <<>> \/ enough = {}
        THEN [ok |-> FALSE, tx |-> NoTx]
        ELSE LET n == CHOOSE m \in enough : \A q \in enough : m <= q
                 c == Total(n) - value
                      - CommitFee(input_type, n, both(0), fee_rate)
                 ins == UnsignedInputs(SubSeq(pool, 1, n))
             IN  IF c >= dust_value(script_pubkey(change[1]))
                   THEN [ok |-> TRUE, tx |-> Tx(ins, both(c))]
                   ELSE [ok |-> TRUE, tx |-> Tx(ins, pay)]

(***************************************************************************)
(* build_reveal_transaction (mint.rs:479-513, mints.rs:509-543): the       *)
(* unsigned reveal and the fee of its copy carrying a placeholder witness. *)
(***************************************************************************)
build_reveal_transaction(control_block, fee_rate, input, output, script) ==
  LET reveal_tx == Tx(<<TxIn(input, <<>>)>>, output)
      placeholder == <<[kind |-> "sig"], [kind |-> "script", script |-> script],
                       control_block>>
      sized_tx == Tx(<<TxIn(input, placeholder)>>, output)
  IN  [tx |-> reveal_tx, fee |-> Fee(fee_rate, VSize(sized_tx))]

(***************************************************************************)
(* Output shapes of the reveals.  i0 is the 0-based position.              *)
(***************************************************************************)
\* mint.rs:267-309, the sizing pass' skeleton
MintSizingOutput(i0, repeat, destination, commit_tx_address, service_address) ==
  IF i0 = 0 /\ repeat = 1
    THEN <<TxOut(script_pubkey(destination), 0),
           TxOut(script_pubkey(service_address), 0)>>
  ELSE IF i0 = 0 /\ repeat > 1
    THEN <<TxOut(script_pubkey(destination), 0),
           TxOut(script_pubkey(commit_tx_address), 0),
           TxOut(script_pubkey(service_address), 0)>>
  ELSE IF i0 + 1 < repeat
    THEN <<TxOut(script_pubkey(destination), 0),
           TxOut(script_pubkey(commit_tx_address), 0)>>
  ELSE <<TxOut(script_pubkey(destination), 0)>>

\* A faulty variant of MintRevealOutput: in the reveals that carry a
\* next-commit output the two values are swapped, so the destination gets
\* the carry and the next commit gets the postage.
MintRevealOutputSwapped(i0, repeat, destination, commit_tx_address, service_address, remain, fee) ==
  IF i0 = 0 /\ repeat = 1
    THEN <<TxOut(script_pubkey(destination), TARGET_POSTAGE),
           TxOut(script_pubkey(service_address), fee)>>
  ELSE IF i0 = 0 /\ repeat > 1
    THEN <<TxOut(script_pubkey(destination), remain[i0 + 1]),
           TxOut(script_pubkey(commit_tx_address), TARGET_POSTAGE),
           TxOut(script_pubkey(service_address), fee)>>
  ELSE IF i0 + 1 < repeat
    THEN <<TxOut(script_pubkey(destination), remain[i0 + 1]),
           TxOut(script_pubkey(commit_tx_address), TARGET_POSTAGE)>>
  ELSE <<TxOut(script_pubkey(destination), TARGET_POSTAGE)>>

\* A faulty variant of MintRevealOutput: every reveal that has a successor
\* pays the service fee, not only the first.
MintRevealOutputServiceEverywhere(i0, repeat, destination, commit_tx_address, service_address, remain, fee) ==
  IF i0 = 0 /\ repeat = 1
    THEN <<TxOut(script_pubkey(destination), TARGET_POSTAGE),
           TxOut(script_pubkey(service_address), fee)>>
  ELSE IF i0 + 1 < repeat
    THEN <<TxOut(script_pubkey(destination), TARGET_POSTAGE),
           TxOut(script_pubkey(commit_tx_address), remain[i0 + 1]),
           TxOut(script_pubkey(service_address), fee)>>
  ELSE <<TxOut(script_pubkey(destination), TARGET_POSTAGE)>>

\* mint.rs:355-397, the building pass
MintRevealOutput(i0, repeat, destination, commit_tx_address, service_address, remain, fee) ==
  IF i0 = 0 /\ repeat = 1
    THEN <<TxOut(script_pubkey(destination), TARGET_POSTAGE),
           TxOut(script_pubkey(service_address), fee)>>
  ELSE IF i0 = 0 /\ repeat > 1
    THEN <<TxOut(script_pubkey(destination), TARGET_POSTAGE),
           TxOut(script_pubkey(commit_tx_address), remain[i0 + 1]),
           TxOut(script_pubkey(service_address), fee)>>
  ELSE IF i0 + 1 < repeat
    THEN <<TxOut(script_pubkey(destination), TARGET_POSTAGE),
           TxOut(script_pubkey(commit_tx_address), remain[i0 + 1])>>
  ELSE <<TxOut(script_pubkey(destination), TARGET_POSTAGE)>>

\* mints.rs:330-365, the sizing pass' skeleton
MintsSizingOutput(i0, repeat, destination, commit_tx_address, service_address, fee) ==
  IF i0 = 0 /\ repeat = 1
    THEN <<TxOut(script_pubkey(destination), 0)>>
         \o (IF fee > 0 THEN <<TxOut(script_pubkey(service_address), 0)>>
             ELSE <<>>)
  ELSE IF i0 = 0 /\ repeat > 1
    THEN <<TxOut(script_pubkey(destination), 0)>>
         \o [j \in 1..(repeat - 1) |->
               TxOut(script_pubkey(commit_tx_address[j + 1]), 0)]
         \o (IF fee > 0 THEN <<TxOut(script_pubkey(service_address), 0)>>
             ELSE <<>>)
  ELSE <<TxOut(script_pubkey(destination), 0)>>

\* A faulty variant of MintsRevealOutput: the first reveal carries a service
\* output also when the service fee is zero.
MintsRevealOutputAlwaysService(i0, repeat, destination, commit_tx_address, service_address, fees, fee) ==
  IF i0 = 0
    THEN <<TxOut(script_pubkey(destination), TARGET_POSTAGE)>>
         \o [j \in 1..(repeat - 1) |->
               TxOut(script_pubkey(commit_tx_address[j + 1]),
                     fees[j + 1] + TARGET_POSTAGE)]
         \o <<TxOut(script_pubkey(service_address), fee)>>
  ELSE <<TxOut(script_pubkey(destination), TARGET_POSTAGE)>>

\* mints.rs:403-438, the building pass
MintsRevealOutput(i0, repeat, destination, commit_tx_address, service_address, fees, fee) ==
  IF i0 = 0 /\ repeat = 1
    THEN <<TxOut(script_pubkey(destination), TARGET_POSTAGE)>>
         \o (IF fee > 0 THEN <<TxOut(script_pubkey(service_address), fee)>>
             ELSE <<>>)
  ELSE IF i0 = 0 /\ repeat > 1
    THEN <<TxOut(script_pubkey(destination), TARGET_POSTAGE)>>
         \o [j \in 1..(repeat - 1) |->
               TxOut(script_pubkey(commit_tx_address[j + 1]),
                     fees[j + 1] + TARGET_POSTAGE)]
         \o (IF fee > 0 THEN <<TxOut(script_pubkey(service_address), fee)>>
             ELSE <<>>)
  ELSE <<TxOut(script_pubkey(destination), TARGET_POSTAGE)>>

\* mints.rs:324-327
RoundServiceFee(per_mint, repeat) ==
  IF per_mint * repeat # 0 /\ per_mint * repeat < MIN_SERVICE_FEE
    THEN MIN_SERVICE_FEE
    ELSE per_mint * repeat

\* mint.rs:339, 351: the product, as it is
TotalServiceFee(per_mint, repeat) == per_mint * repeat

(***************************************************************************)
(* Per-position values of create_inscription_transactions.                 *)
(***************************************************************************)
\* the keys the CSPRNG may hand out
Keys == {7}

\* mint.rs:245-249 (one script for all positions) / mints.rs:287-292
reveal_script(i0) ==
  IF req.kind = "mint"
    THEN append_reveal_script(key_pair, req.content[1])
    ELSE append_reveal_script(key_pair, req.content[i0 + 1])

\* mint.rs:257-259 / mints.rs:298-300
control_block(i0) == control_block_of(key_pair, reveal_script(i0))

\* mint.rs:261 / mints.rs:301
commit_tx_address(i0) == p2tr_tweaked(output_key(key_pair, reveal_script(i0)))

\* mints.rs:284, 316: the Vec of commit addresses
commit_tx_addresses == [k \in 1..Repeat |-> commit_tx_address(k - 1)]

\* A faulty variant of MintRevealInput: every later reveal spends from the
\* first reveal instead of from its predecessor.
MintRevealInputFromFirst(i0, commit_tx, vout, txs) ==
  IF i0 = 0 THEN OutPoint(Txid(commit_tx), vout)
  ELSE OutPoint(Txid(txs[1]), 1)

\* mint.rs:399-403: the outpoint Ri spends
MintRevealInput(i0, commit_tx, vout, txs) ==
  IF i0 = 0 THEN OutPoint(Txid(commit_tx), vout)
  ELSE OutPoint(Txid(txs[i0]), 1)

\* A faulty variant of MintsRevealInput: every later reveal spends from its
\* immediate predecessor instead of from the first reveal.
MintsRevealInputFromPredecessor(i0, commit_tx, vout, txs) ==
  IF i0 = 0 THEN OutPoint(Txid(commit_tx), vout)
  ELSE OutPoint(Txid(txs[i0]), i0)

\* mints.rs:440-444: the outpoint Ri spends
MintsRevealInput(i0, commit_tx, vout, txs) ==
  IF i0 = 0 THEN OutPoint(Txid(commit_tx), vout)
  ELSE OutPoint(Txid(txs[1]), i0)

\* mint.rs:419-423: index (0-based) of the output of the previous reveal
\* that is handed to the signature hash
MintPrevoutIndex(i0) == 1

\* A faulty variant of MintsPrevoutIndex: the output of R0 handed to the
\* signature hash is the one of position 1, whatever the position.
MintsPrevoutIndexOfSecond(i0) == 1

\* mints.rs:460-464: index (0-based) of the output of R0 that is handed to
\* the signature hash
MintsPrevoutIndex(i0) == i0

\* mint.rs:425-445 / mints.rs:466-486: the signed witness; the signature
\* commits to the transaction, the prevout and the leaf
SignedWitness(tx, prevout, i0) ==
  <<[kind |-> "sig", key |-> key_pair,
     msg |-> [tx |-> Txid(tx), prevout |-> prevout, leaf |-> reveal_script(i0)]],
    [kind |-> "script", script |-> reveal_script(i0)],
    control_block(i0)>>

\* mint.rs:186-193 / mints.rs:215-222
calculate_fee(tx, ut) ==
  SumSeq([k \in 1..Len(tx.input) |->
            LET hit(u) == u.outpoint = tx.input[k].previous_output
            IN  SelectSeq(ut, hit)[1].amount])
  - SumSeq([k \in 1..Len(tx.output) |-> tx.output[k].value])

\* A faulty variant of Err: the reveals built so far escape with the error.
ErrWithReveals(msg) == [status |-> "err", msg |-> msg, reveal |-> reveal_txs]

\* Result::Err of a planner (anyhow::Error with its text)
Err(msg) == [status |-> "err", msg |-> msg]

Panic(msg) == [status |-> "panic", msg |-> msg]

NoSatpoint == [outpoint |-> NullOutPoint, offset |-> 0]

\* no other invocation is in flight
NoInvocation == <<>>

\* no response has been written yet
NoResponse == [status |-> 0, body |-> <<>>]

(***************************************************************************)
(* Mint::build up to the call of create_inscription_transactions.          *)
(***************************************************************************)
\* mint.rs:61-93: the first failure, "" if none.  `outcome` names the
\* collaborator call that fails, if any.
MintBuildError(outcome) ==
  IF outcome = "open" THEN "index unavailable"
  ELSE IF ~req.source.net_ok THEN "Address is not valid for network"
  ELSE IF ~reveal_tx_destination.net_ok THEN "Address is not valid for network"
  ELSE IF outcome = "utxos" THEN "utxos unavailable"
  ELSE IF outcome = "inscriptions" THEN "inscriptions unavailable"
  ELSE ""

\* mints.rs:58-116
MintsBuildError(outcome) ==
  IF outcome = "open" THEN "index unavailable"
  ELSE IF ~req.source.net_ok THEN "Address is not valid for network"
  ELSE IF ~reveal_tx_destination.net_ok THEN "Address is not valid for network"
  ELSE IF ~AddressTypeOk(req.source)
    THEN "Address type is not valid, only support p2tr and p2wpkh"
  ELSE IF outcome = "utxos" THEN "utxos unavailable"
  ELSE IF outcome = "inscriptions" THEN "inscriptions unavailable"
  ELSE ""

Init ==
  /\ \/ \E c \in Common, x \in MintContents, r \in Repeats :
          req = MintRequest(c, <<x>>, r)
     \/ \E c \in Common, l \in ContentLists :
          req = MintsRequest(c, l)
  /\ pc = "start"
  /\ i = 0
  /\ utxos = <<>>
  /\ inscriptions = <<>>
  /\ satpoint = NoSatpoint
  /\ reveal_fees = <<>>
  /\ next_remain_fees = <<>>
  /\ sized = <<>>
  /\ service_fee = 0
  /\ commit_value = 0
  /\ unsigned_commit_tx = NoTx
  /\ commit_vout = 0
  /\ reveal_txs = <<>>
  /\ key_pair = 0
  /\ result = [status |-> "none"]
  /\ satpoints = <<>>
  /\ amount = 0
  /\ remain_outpoint = {}
  /\ lookups = <<>>
  /\ unsigned_transaction = NoTx
  /\ response = NoResponse
  /\ suspended = NoInvocation

Build ==
  /\ UNCHANGED other_vars
  /\ req.kind \in {"mint", "mints"}
  /\ pc = "start"
  /\ \E outcome \in {"ok", "open", "utxos", "inscriptions"} :
       LET e == IF req.kind = "mint" THEN MintBuildError(outcome)
                ELSE MintsBuildError(outcome)
       IN  IF e # ""
             THEN /\ pc' = "error"
                  /\ result' = Err(e)
                  /\ UNCHANGED <<utxos, inscriptions>>
             ELSE /\ pc' = "select"
                  /\ utxos' = req.wallet.utxos
                  /\ inscriptions' = req.wallet.inscriptions
                  /\ UNCHANGED result
  /\ UNCHANGED <<req, i, satpoint, reveal_fees, next_remain_fees, sized,
                 service_fee, commit_value, unsigned_commit_tx, commit_vout,
                 reveal_txs, key_pair>>

(***************************************************************************)
(* create_inscription_transactions: anchor, key, leaf scripts.             *)
(***************************************************************************)
\* A faulty variant of CardinalUtxos: inscribed outputs are candidates too.
CardinalUtxosUnfiltered(ut, inscr) == ut

\* A faulty variant of CardinalUtxos: the order of the candidates depends on
\* the request, not only on the views.
CardinalUtxosByContent(ut, inscr) ==
  LET free(u) == u.outpoint \notin InscribedOutpoints(inscr)
  IN  IF req.content[1] = 1 THEN SelectSeq(ut, free)
      ELSE Reverse(SelectSeq(ut, free))

\* mint.rs:213-225 / mints.rs:249-261: the cardinal candidates in key order
CardinalUtxos(ut, inscr) ==
  LET free(u) == u.outpoint \notin InscribedOutpoints(inscr)
  IN  SelectSeq(ut, free)

\* mint.rs:228-239 / mints.rs:264-275
AnchorInscribed(sp, inscr) ==
  \E k \in 1..Len(inscr) :
    inscr[k].satpoint = sp \/ inscr[k].satpoint.outpoint = sp.outpoint

SelectSatpoint ==
  /\ UNCHANGED other_vars
  /\ pc = "select"
  /\ LET cands == CardinalUtxos(utxos, inscriptions)
         sp == [outpoint |-> cands[1].outpoint, offset |-> 0]
     IN  IF cands = <<>>
           THEN /\ pc' = "error"
                /\ result' = Err("wallet contains no cardinal utxos")
                /\ UNCHANGED <<i, satpoint, key_pair, service_fee>>
         ELSE IF AnchorInscribed(sp, inscriptions)
           THEN /\ pc' = "error"
                /\ result' = Err("already inscribed")
                /\ UNCHANGED <<i, satpoint, key_pair, service_fee>>
         ELSE /\ pc' = "sizing"
              /\ satpoint' = sp
              /\ key_pair' \in Keys
              /\ service_fee' =
                   IF req.kind = "mints"
                     THEN RoundServiceFee(PerMintServiceFee, Repeat)
                     ELSE service_fee
              /\ i' = Repeat - 1
              /\ UNCHANGED result
  /\ UNCHANGED <<req, utxos, inscriptions, reveal_fees, next_remain_fees,
                 sized, commit_value, unsigned_commit_tx, commit_vout,
                 reveal_txs>>

(***************************************************************************)
(* The sizing pass, one position per step, from the last to the first.     *)
(***************************************************************************)
\* A faulty variant of NextRemainFee: the carry forgets the postage of the
\* successor.
NextRemainFeeNoPostage(fees, remain) ==
  Last(fees) + (IF remain = <<>> THEN 0 ELSE Last(remain))

\* mint.rs:318-322: the carry pushed for a position that has a successor
NextRemainFee(fees, remain) ==
  Last(fees) + (IF remain = <<>> THEN 0 ELSE Last(remain)) + TARGET_POSTAGE

SizingStep ==
  /\ UNCHANGED other_vars
  /\ pc = "sizing"
  /\ i >= 0
  /\ LET out == IF req.kind = "mint"
                  THEN MintSizingOutput(i, Repeat, reveal_tx_destination,
                                        commit_tx_address(0), ServiceAddress)
                  ELSE MintsSizingOutput(i, Repeat, reveal_tx_destination,
                                         commit_tx_addresses, ServiceAddress,
                                         service_fee)
         built == build_reveal_transaction(control_block(i), req.fee_rate,
                                           NullOutPoint, out, reveal_script(i))
     IN  /\ next_remain_fees' =
              IF req.kind = "mint" /\ i + 1 < Repeat
                THEN Append(next_remain_fees,
                            NextRemainFee(reveal_fees, next_remain_fees))
                ELSE next_remain_fees
         /\ reveal_fees' = Append(reveal_fees, built.fee)
         /\ sized' = Append(sized, out)
  /\ i' = i - 1
  /\ UNCHANGED <<req, pc, utxos, inscriptions, satpoint, service_fee,
                 commit_value, unsigned_commit_tx, commit_vout, reveal_txs,
                 key_pair, result>>

(***************************************************************************)
(* The commit pass.                                                        *)
(***************************************************************************)
\* A faulty variant of MintCommitValue: the service fee is not funded.
MintCommitValueNoService(fees, remain, per_mint, repeat) ==
  fees[1] + TARGET_POSTAGE + (IF remain = <<>> THEN 0 ELSE remain[1])

\* mint.rs:336-339
MintCommitValue(fees, remain, per_mint, repeat) ==
  fees[1] + TARGET_POSTAGE + (IF remain = <<>> THEN 0 ELSE remain[1])
    + TotalServiceFee(per_mint, repeat)

\* mints.rs:385-387
MintsCommitValue(fees, repeat, fee) ==
  SumSeq(fees) + TARGET_POSTAGE * repeat + fee

\* mint.rs:342-347 / mints.rs:390-395: 0-based index of the first output
\* locked to the commit address, -1 if there is none
FindCommitVout(tx, script) ==
  LET hits == {k \in 1..Len(tx.output) : tx.output[k].script_pubkey = script}
  IN  IF hits = {} THEN -1
      ELSE (CHOOSE k \in hits : \A q \in hits : k <= q) - 1

CommitStep ==
  /\ UNCHANGED other_vars
  /\ pc = "sizing"
  /\ i < 0
  /\ reveal_fees' = Reverse(reveal_fees)
  /\ next_remain_fees' = Reverse(next_remain_fees)
  /\ IF Repeat = 0
       THEN \* reveal_fees[0] (mint.rs:336), commit_tx_address[0] (mints.rs:382)
            /\ pc' = "panic"
            /\ result' = Panic("index out of bounds")
            /\ UNCHANGED <<i, service_fee, commit_value, unsigned_commit_tx,
                           commit_vout>>
       ELSE LET value ==
                  IF req.kind = "mint"
                    THEN MintCommitValue(reveal_fees', next_remain_fees',
                                         PerMintServiceFee, Repeat)
                    ELSE MintsCommitValue(reveal_fees', Repeat, service_fee)
                r == build_transaction_with_value(
                       IF req.kind = "mint" THEN "P2TR" ELSE req.source.type,
                       satpoint, inscriptions, utxos, commit_tx_address(0),
                       <<req.source, req.source>>, req.fee_rate, value)
                vout == FindCommitVout(r.tx,
                                       script_pubkey(commit_tx_address(0)))
            IN  /\ commit_value' = value
                /\ IF ~r.ok
                     THEN /\ pc' = "error"
                          /\ result' = Err("insufficient funds")
                          /\ UNCHANGED <<i, service_fee, unsigned_commit_tx,
                                         commit_vout>>
                   ELSE IF vout < 0
                     THEN /\ pc' = "panic"
                          /\ result' =
                               Panic("should find sat commit/inscription output")
                          /\ UNCHANGED <<i, service_fee, unsigned_commit_tx,
                                         commit_vout>>
                   ELSE /\ pc' = "reveal"
                        /\ i' = 0
                        /\ unsigned_commit_tx' = r.tx
                        /\ commit_vout' = vout
                        /\ service_fee' =
                             IF req.kind = "mint"
                               THEN TotalServiceFee(PerMintServiceFee, Repeat)
                               ELSE service_fee
                        /\ UNCHANGED result
  /\ UNCHANGED <<req, utxos, inscriptions, satpoint, sized, reveal_txs,
                 key_pair>>

(***************************************************************************)
(* The building pass, one reveal per step, from the first to the last.     *)
(***************************************************************************)
RevealStep ==
  /\ UNCHANGED other_vars
  /\ pc = "reveal"
  /\ i < Repeat
  /\ LET out == IF req.kind = "mint"
                  THEN MintRevealOutput(i, Repeat, reveal_tx_destination,
                                        commit_tx_address(0), ServiceAddress,
                                        next_remain_fees, service_fee)
                  ELSE MintsRevealOutput(i, Repeat, reveal_tx_destination,
                                         commit_tx_addresses, ServiceAddress,
                                         reveal_fees, service_fee)
         input == IF req.kind = "mint"
                    THEN MintRevealInput(i, unsigned_commit_tx, commit_vout,
                                         reveal_txs)
                    ELSE MintsRevealInput(i, unsigned_commit_tx, commit_vout,
                                          reveal_txs)
         built == build_reveal_transaction(control_block(i), req.fee_rate,
                                           input, out, reveal_script(i))
         idx == IF req.kind = "mint" THEN MintPrevoutIndex(i)
                ELSE MintsPrevoutIndex(i)
         from == IF req.kind = "mint" THEN reveal_txs[i] ELSE reveal_txs[1]
         prevout == IF i = 0 THEN unsigned_commit_tx.output[commit_vout + 1]
                    ELSE from.output[idx + 1]
         signed == Tx(<<TxIn(input, SignedWitness(built.tx, prevout, i))>>, out)
     IN  IF built.tx.output[1].value
              < dust_value(built.tx.output[1].script_pubkey)
           THEN /\ pc' = "error"
                /\ result' = Err("commit transaction output would be dust")
                /\ UNCHANGED <<i, reveal_txs>>
         ELSE IF i > 0 /\ idx + 1 > Len(from.output)
           THEN /\ pc' = "panic"
                /\ result' = Panic("index out of bounds")
                /\ UNCHANGED <<i, reveal_txs>>
         ELSE IF Weight(signed) > MAX_STANDARD_TX_WEIGHT
           THEN /\ pc' = "error"
                /\ result' = Err("reveal transaction weight greater than MAX_STANDARD_TX_WEIGHT")
                /\ UNCHANGED <<i, reveal_txs>>
         ELSE /\ reveal_txs' = Append(reveal_txs, signed)
              /\ i' = i + 1
              /\ UNCHANGED <<pc, result>>
  /\ UNCHANGED <<req, utxos, inscriptions, satpoint, reveal_fees,
                 next_remain_fees, sized, service_fee, commit_value,
                 unsigned_commit_tx, commit_vout, key_pair>>

(***************************************************************************)
(* Back in Mint::build: the result envelope.                               *)
(***************************************************************************)
\* mint.rs:352 / mints.rs:399
SatpointFee(repeat) == TARGET_POSTAGE * repeat

\* A faulty variant of NetworkFee: the fee paid by the commit transaction
\* is left out.
NetworkFeeRevealsOnly(commit_tx, ut, fees) == SumSeq(fees)

\* mint.rs:120, 353 / mints.rs:149, 400
NetworkFee(commit_tx, ut, fees) == calculate_fee(commit_tx, ut) + SumSeq(fees)

\* mint.rs:133 / mints.rs:162: one inscription id per reveal, from its txid
InscriptionIds(txs) ==
  [k \in 1..Len(txs) |-> [txid |-> Txid(txs[k]), index |-> 0]]

BuildOutput ==
  /\ UNCHANGED other_vars
  /\ pc = "reveal"
  /\ i = Repeat
  /\ pc' = "done"
  /\ result' = [status |-> "ok",
                commit |-> unsigned_commit_tx,
                reveal |-> reveal_txs,
                inscription |-> InscriptionIds(reveal_txs),
                service_fee |-> service_fee,
                satpoint_fee |-> SatpointFee(Repeat),
                network_fee |-> NetworkFee(unsigned_commit_tx, utxos,
                                           reveal_fees)]
  /\ UNCHANGED <<req, i, utxos, inscriptions, satpoint, reveal_fees,
                 next_remain_fees, sized, service_fee, commit_value,
                 unsigned_commit_tx, commit_vout, reveal_txs, key_pair>>

Next ==
  \/ Build
  \/ SelectSatpoint
  \/ SizingStep
  \/ CommitStep
  \/ RevealStep
  \/ BuildOutput

Spec == Init /\ [][Next]_vars

(***************************************************************************)
(* Properties.                                                             *)
(***************************************************************************)
IsMint == req.kind = "mint"

IsMints == req.kind = "mints"

DestinationScript == script_pubkey(reveal_tx_destination)

ServiceScript == script_pubkey(ServiceAddress)

\* the sizing pass is over and the commit value has been requested
CommitRequested == commit_value > 0

\* carry of position i0: what the reveals after i0 need, from the fees of
\* the sizing pass in position order
Carry(i0) ==
  SumSeq([j \in 1..(Repeat - 1 - i0) |->
            reveal_fees[i0 + 1 + j] + TARGET_POSTAGE])

\* C1: in every mint (repeat or batch), output 0 of every reveal built pays
\* the destination script exactly TARGET_POSTAGE, and a successful mint
\* returns exactly these reveals, one per position.
C1_PostagePreserved ==
  /\ \A k \in 1..Len(reveal_txs) :
       reveal_txs[k].output[1] = TxOut(DestinationScript, TARGET_POSTAGE)
  /\ pc = "done" =>
       /\ result.reveal = reveal_txs
       /\ Len(result.reveal) = Repeat

C1_Witness ==
  /\ pc = "done"
  /\ IsMint
  /\ Repeat = 3
  /\ Len(result.reveal) = 3

\* C2: in a repeat-mint, R0's only input is the output of the commit
\* transaction locked to the commit address; every later Ri's only input
\* is (R(i-1).txid, 1), and output 1 of R(i-1) exists, is locked to the
\* commit address and is the prevout the signature of Ri commits to.
C2_RepeatChainLinkage ==
  IsMint =>
    \A k \in 1..Len(reveal_txs) :
      LET tx == reveal_txs[k]
          signed_over == tx.input[1].witness[1].msg.prevout
          commit_script == script_pubkey(commit_tx_address(0))
      IN  /\ Len(tx.input) = 1
          /\ IF k = 1
               THEN /\ tx.input[1].previous_output
                         = OutPoint(Txid(unsigned_commit_tx), commit_vout)
                    /\ unsigned_commit_tx.output[commit_vout + 1].script_pubkey
                         = commit_script
                    /\ signed_over = unsigned_commit_tx.output[commit_vout + 1]
               ELSE /\ tx.input[1].previous_output
                         = OutPoint(Txid(reveal_txs[k - 1]), 1)
                    /\ Len(reveal_txs[k - 1].output) >= 2
                    /\ reveal_txs[k - 1].output[2].script_pubkey = commit_script
                    /\ signed_over = reveal_txs[k - 1].output[2]

C2_Witness ==
  /\ IsMint
  /\ pc = "done"
  /\ Len(reveal_txs) = 3
  /\ reveal_txs[3].input[1].previous_output.txid = Txid(reveal_txs[2])

\* C3 as stated: in a batch-mint every Ri with i > 0 spends an output of
\* its immediate predecessor R(i-1).
C3_BatchSpendsPredecessor ==
  IsMints =>
    \A k \in 2..Len(reveal_txs) :
      reveal_txs[k].input[1].previous_output.txid = Txid(reveal_txs[k - 1])

\* C3 as amended: in a batch-mint every Ri with i > 0 spends an output of
\* the first reveal R0, which is the immediate predecessor only of R1; R0
\* and R1 are different transactions.
C3_BatchSpendsFirstReveal ==
  IsMints =>
    /\ \A k \in 2..Len(reveal_txs) :
         reveal_txs[k].input[1].previous_output.txid = Txid(reveal_txs[1])
    /\ Len(reveal_txs) >= 2 => Txid(reveal_txs[2]) # Txid(reveal_txs[1])

C3_Witness ==
  /\ IsMints
  /\ pc = "done"
  /\ req.content = <<1, 2, 3>>
  /\ Len(reveal_txs) = 3
  /\ reveal_txs[3].input[1].previous_output.txid = Txid(reveal_txs[1])

\* C4: in a repeat-mint with R > 1 and a non-zero service fee the reveals
\* have the shapes R0 = [destination: postage, commit address: carry_0,
\* service address: fee * R], Ri = [destination: postage, commit address:
\* carry_i] for 0 < i < R-1, R(R-1) = [destination: postage].
C4_RepeatShapeTable ==
  (IsMint /\ Repeat > 1 /\ PerMintServiceFee > 0) =>
    \A k \in 1..Len(reveal_txs) :
      LET commit_script == script_pubkey(commit_tx_address(0))
      IN  reveal_txs[k].output =
            IF k = 1
              THEN <<TxOut(DestinationScript, TARGET_POSTAGE),
                     TxOut(commit_script, Carry(0)),
                     TxOut(ServiceScript, PerMintServiceFee * Repeat)>>
            ELSE IF k < Repeat
              THEN <<TxOut(DestinationScript, TARGET_POSTAGE),
                     TxOut(commit_script, Carry(k - 1))>>
            ELSE <<TxOut(DestinationScript, TARGET_POSTAGE)>>

C4_Witness ==
  /\ IsMint
  /\ pc = "done"
  /\ Repeat = 3
  /\ PerMintServiceFee = SERVICE_FEE
  /\ Len(reveal_txs[1].output) = 3
  /\ Len(reveal_txs[2].output) = 2
  /\ Len(reveal_txs[3].output) = 1

\* total service fee of the mint as the planner of its kind computes it
PlannedServiceFee ==
  IF IsMint THEN TotalServiceFee(PerMintServiceFee, Repeat)
  ELSE RoundServiceFee(PerMintServiceFee, Repeat)

\* outputs after the destination output that pay the service address
ServiceOutputs(outs) ==
  {m \in 2..Len(outs) : outs[m].script_pubkey = ServiceScript}

\* C5: when the total service fee is zero, neither a skeleton of the
\* sizing pass nor a reveal of the building pass has a service output.
C5_NoServiceOutputWhenFree ==
  (key_pair # 0 /\ PlannedServiceFee = 0) =>
    /\ \A k \in 1..Len(sized) : ServiceOutputs(sized[k]) = {}
    /\ \A k \in 1..Len(reveal_txs) : ServiceOutputs(reveal_txs[k].output) = {}

\* C6: a mint that returns successfully has no reveal output, at any
\* index, below the dust threshold of its script.
C6_NoDustOutput ==
  pc = "done" =>
    \A k \in 1..Len(result.reveal) :
      \A m \in 1..Len(result.reveal[k].output) :
        result.reveal[k].output[m].value
          >= dust_value(result.reveal[k].output[m].script_pubkey)

\* C7: in a repeat-mint, once the sizing pass is over, next_remain_fees[i]
\* is the sum over j > i of (reveal_fee_j + TARGET_POSTAGE) for i in
\* 0..R-2, and the value requested for the commit output is reveal_fee_0 +
\* TARGET_POSTAGE + carry_0 + per_mint_service_fee * R.
C7_CarryAndCommitValue ==
  (IsMint /\ CommitRequested) =>
    /\ Len(reveal_fees) = Repeat
    /\ Len(next_remain_fees) = Repeat - 1
    /\ \A i0 \in 0..(Repeat - 2) : next_remain_fees[i0 + 1] = Carry(i0)
    /\ commit_value = reveal_fees[1] + TARGET_POSTAGE
                        + (IF Repeat = 1 THEN 0 ELSE Carry(0))
                        + PerMintServiceFee * Repeat

C7_Witness ==
  /\ IsMint
  /\ CommitRequested
  /\ Repeat = 3
  /\ Len(next_remain_fees) = 2
  /\ next_remain_fees[1] > next_remain_fees[2]

\* the floor the specification puts on a non-zero total service fee
FlooredServiceFee ==
  LET total == PerMintServiceFee * Repeat
  IN  IF total # 0 /\ total < MIN_SERVICE_FEE THEN MIN_SERVICE_FEE ELSE total

\* C8: in every mint the total service fee is per_mint_service_fee * R
\* raised to 600 when it is non-zero and below 600, and that amount is in
\* the commit funding target, in the service output of R0 and in the
\* reported service_fee.
C8_ServiceFeeFloored ==
  pc = "done" =>
    /\ result.service_fee = FlooredServiceFee
    /\ commit_value = SumSeq(reveal_fees) + TARGET_POSTAGE * Repeat
                        + FlooredServiceFee
    /\ \A m \in ServiceOutputs(result.reveal[1].output) :
         result.reveal[1].output[m].value = FlooredServiceFee

\* mint.rs:186-193: the value of a wallet output spent by the commit
WalletValue(op) ==
  LET hits == {k \in 1..Len(req.wallet.utxos) :
                 req.wallet.utxos[k].outpoint = op}
  IN  req.wallet.utxos[CHOOSE k \in hits : TRUE].amount

PlacedServiceValue(txs) ==
  SumSeq([k \in 1..Len(txs) |->
            SumSeq([m \in 1..Len(txs[k].output) |->
                      IF m \in ServiceOutputs(txs[k].output)
                        THEN txs[k].output[m].value ELSE 0])])

\* C9: a successful mint of R inscriptions reports satpoint_fee =
\* TARGET_POSTAGE * R, service_fee = the value of the service outputs
\* placed in the reveals, network_fee = (commit inputs - commit outputs) +
\* the sum of the reveal fees, and R reveals with R inscription ids, the
\* i-th id being derived from the txid of the i-th reveal.
C9_ResultEnvelope ==
  pc = "done" =>
    /\ result.satpoint_fee = TARGET_POSTAGE * Repeat
    /\ result.service_fee = PlacedServiceValue(result.reveal)
    /\ result.network_fee =
         SumSeq([k \in 1..Len(result.commit.input) |->
                   WalletValue(result.commit.input[k].previous_output)])
         - SumSeq([k \in 1..Len(result.commit.output) |->
                     result.commit.output[k].value])
         + SumSeq(reveal_fees)
    /\ Len(result.reveal) = Repeat
    /\ Len(result.inscription) = Repeat
    /\ \A k \in 1..Repeat :
         result.inscription[k].txid = Txid(result.reveal[k])

C9_Witness ==
  /\ pc = "done"
  /\ IsMints
  /\ Repeat = 3
  /\ result.service_fee > 0
  /\ Len(result.commit.input) = 2
  /\ result.network_fee > SumSeq(reveal_fees)

\* C10: a mint request whose source address type is neither P2TR nor
\* P2WPKH is rejected before any UTXO is selected and before any
\* transaction is built.
C10_OtherAddressTypesRejected ==
  ~AddressTypeOk(req.source) =>
    /\ pc # "done"
    /\ satpoint = NoSatpoint
    /\ unsigned_commit_tx = NoTx
    /\ reveal_txs = <<>>

(***************************************************************************)
(* The transfer planner, subcommand/wallet/transfer.rs.                    *)
(***************************************************************************)
\* largest number of additional outgoings explored
MaxAdditional == 2

\* Outgoing (transfer.rs:14, 21)
SatPointOf(t, v, off) == [outpoint |-> OutPoint(<<t>>, v), offset |-> off]

InscriptionId(t) == [txid |-> <<t>>, index |-> 0]

OutgoingSatPoint(sp) == [kind |-> "satpoint", satpoint |-> sp]

OutgoingInscriptionId(id) == [kind |-> "id", id |-> id]

OutgoingAmount(a) == [kind |-> "amount", amount |-> a]

\* primary outgoings: a cardinal satpoint, an inscribed satpoint, another
\* sat of an inscribed output, an inscription still in its birth output,
\* one that has moved, an unknown one, an amount
Outgoings ==
  {OutgoingSatPoint(SatPointOf(12, 1, 0)),
   OutgoingSatPoint(SatPointOf(11, 0, 0)),
   OutgoingSatPoint(SatPointOf(11, 0, 5)),
   OutgoingInscriptionId(InscriptionId(11)),
   OutgoingInscriptionId(InscriptionId(14)),
   OutgoingInscriptionId(InscriptionId(15)),
   OutgoingAmount(20000)}

AdditionOutgoings ==
  {OutgoingSatPoint(SatPointOf(12, 0, 0)),
   OutgoingInscriptionId(InscriptionId(14)),
   OutgoingAmount(5000)}

AdditionLists == UNION {[1..n -> AdditionOutgoings] : n \in 0..MaxAdditional}

AdditionFees == {0, 500}

TransferDestinations ==
  {Addr("P2WPKH", 2, TRUE), Addr("P2SH", 2, TRUE), Addr("P2TR", 2, FALSE)}

\* the views a transfer is served: every output of the address in key
\* order, the outpoints the mempool view leaves out unless they are
\* whitelisted, and the inscription index
TransferWallets ==
  {[utxos |-> <<>>, hidden |-> {}, inscriptions |-> <<>>],
   [utxos |-> <<Utxo(11, 0, 10000)>>, hidden |-> {},
    inscriptions |-> <<[satpoint |-> SatPointOf(11, 0, 0),
                        id |-> InscriptionId(11)]>>],
   [utxos |-> <<Utxo(11, 0, 10000), Utxo(12, 0, 1000000), Utxo(12, 1, 30000),
                Utxo(13, 1, 10000), Utxo(14, 0, 10000)>>,
    hidden |-> {OutPoint(<<14>>, 0)},
    inscriptions |-> <<[satpoint |-> SatPointOf(11, 0, 0),
                        id |-> InscriptionId(11)],
                       [satpoint |-> SatPointOf(13, 1, 0),
                        id |-> InscriptionId(14)]>>]}

TransferRequest(src, dst, out, adds, fee, brc20, op, rate, w) ==
  [kind |-> "transfer", source |-> src, destination |-> dst, outgoing |-> out,
   addition_outgoing |-> adds, addition_fee |-> fee, brc20_transfer |-> brc20,
   op_return |-> op, fee_rate |-> rate, wallet |-> w]

\* Index::get_unspent_outputs_by_mempool_v1(address, remain_outpoint)
get_unspent_outputs_by_mempool_v1(w, remain) ==
  LET served(u) == u.outpoint \notin w.hidden \/ u.outpoint \in remain
  IN  SelectSeq(w.utxos, served)

\* Index::get_inscription_satpoint_by_id: the satpoint, or None
get_inscription_satpoint_by_id(w, id) ==
  LET hits == {k \in 1..Len(w.inscriptions) : w.inscriptions[k].id = id}
  IN  IF hits = {} THEN None
      ELSE Some(w.inscriptions[CHOOSE k \in hits : TRUE].satpoint)

\* transfer.rs:35-85: the first failure before the outgoing is resolved,
\* "" if none
TransferBuildError(outcome) ==
  IF ~req.destination.net_ok THEN "Address is not valid for network"
  ELSE IF ~req.source.net_ok THEN "Address is not valid for network"
  ELSE IF ~AddressTypeOk(req.source)
    THEN "Address type is not valid, only support p2tr and p2wpkh"
  ELSE IF outcome = "open" THEN "index unavailable"
  ELSE IF outcome = "inscriptions" THEN "inscriptions unavailable"
  ELSE ""

\* transfer.rs:71 (the flag is written 1 for true, 0 for false)
brc20_transfer == unwrap_or(req.brc20_transfer, 0) = 1

\* transfer.rs:91-95, 101-105
IsInscriptionSatpoint(sp, inscr) ==
  \E k \in 1..Len(inscr) : inscr[k].satpoint = sp

\* index of the first additional outgoing that makes the loop bail (the
\* first flag that is set), 0 if none does
FirstBad(flags) ==
  LET bad == {k \in 1..Len(flags) : flags[k]}
  IN  IF bad = {} THEN 0 ELSE CHOOSE k \in bad : \A q \in bad : k <= q

\* what the match on the outgoing yields (transfer.rs:89-208): an error
\* text ("" if none), the anchors, the destination value, the whitelist of
\* the UTXO query, the ids looked up, whether the UTXO view was queried
\* and the id an "Inscription <id> not found" error names
Resolved(e, sps, amt, remain, looked, queried, missing) ==
  [err |-> e, satpoints |-> sps, amount |-> amt, remain |-> remain,
   lookups |-> looked, queried |-> queried, missing |-> missing]

NoId == [txid |-> <<0>>, index |-> 0]

\* transfer.rs:114-115, 163-164
PostageAmount(n, addition_fee) == TARGET_POSTAGE * (1 + n) + addition_fee

\* transfer.rs:186
LookupAmount(n, addition_fee) == TARGET_POSTAGE * (1 + n)

\* transfer.rs:206
OutgoingAmountValue(a, addition_fee) == a + addition_fee

\* transfer.rs:90-118
ResolveSatPoint(outcome) ==
  LET inscr == req.wallet.inscriptions
      adds == req.addition_outgoing
      Bad(o) == o.kind # "satpoint" \/ IsInscriptionSatpoint(o.satpoint, inscr)
      k == FirstBad([j \in 1..Len(adds) |-> Bad(adds[j])])
      e == IF IsInscriptionSatpoint(req.outgoing.satpoint, inscr)
             THEN "inscriptions must be sent by inscription ID"
           ELSE IF k > 0 /\ adds[k].kind # "satpoint"
             THEN "Addition outgoing must be satpoint"
           ELSE IF k > 0 THEN "inscriptions must be sent by inscription ID"
           ELSE IF outcome = "utxos" THEN "utxos unavailable"
           ELSE ""
  IN  Resolved(e,
               IF k > 0 THEN <<>>
               ELSE <<req.outgoing.satpoint>>
                      \o [j \in 1..Len(adds) |-> adds[j].satpoint],
               PostageAmount(Len(adds), req.addition_fee), {}, <<>>,
               e \in {"", "utxos unavailable"}, NoId)

\* A faulty variant of SynthesizedSatpoint: the anchor is taken from the
\* output the inscription id names by its index + 1.
SynthesizedSatpointSecondOutput(id) ==
  [outpoint |-> [txid |-> id.txid, vout |-> 1], offset |-> 0]

\* transfer.rs:130-136, 148-154
SynthesizedSatpoint(id) ==
  [outpoint |-> [txid |-> id.txid, vout |-> 0], offset |-> 0]

\* transfer.rs:122-128, 141-147
WhitelistedOutpoint(id) == [txid |-> id.txid, vout |-> 0]

\* transfer.rs:120-166
ResolveBrc20(outcome) ==
  LET adds == req.addition_outgoing
      Bad(o) == o.kind # "id"
      k == FirstBad([j \in 1..Len(adds) |-> Bad(adds[j])])
      ids == IF k > 0 THEN <<>>
             ELSE <<req.outgoing.id>> \o [j \in 1..Len(adds) |-> adds[j].id]
      e == IF k > 0 THEN "Addition outgoing must be satpoint"
           ELSE IF outcome = "utxos" THEN "utxos unavailable"
           ELSE ""
  IN  Resolved(e,
               [j \in 1..Len(ids) |-> SynthesizedSatpoint(ids[j])],
               PostageAmount(Len(adds), req.addition_fee),
               {WhitelistedOutpoint(ids[j]) : j \in 1..Len(ids)}, <<>>,
               k = 0, NoId)

\* transfer.rs:167-189
ResolveLookup(outcome) ==
  LET adds == req.addition_outgoing
      found(id) == get_inscription_satpoint_by_id(req.wallet, id)
      Bad(o) == o.kind # "id" \/ ~found(o.id).some
      k == FirstBad([j \in 1..Len(adds) |-> Bad(adds[j])])
      first == found(req.outgoing.id)
      upto == IF outcome = "lookup" \/ ~first.some THEN 0
              ELSE IF k = 0 THEN Len(adds)
              ELSE IF adds[k].kind = "id" THEN k ELSE k - 1
      e == IF outcome = "lookup" THEN "index unavailable"
           ELSE IF ~first.some THEN "Inscription not found"
           ELSE IF k > 0 /\ adds[k].kind # "id"
             THEN "Addition outgoing must be satpoint"
           ELSE IF k > 0 THEN "Inscription not found"
           ELSE IF outcome = "utxos" THEN "utxos unavailable"
           ELSE ""
  IN  Resolved(e,
               IF ~first.some \/ k > 0 THEN <<>>
               ELSE <<first.v>>
                      \o [j \in 1..Len(adds) |-> found(adds[j].id).v],
               LookupAmount(Len(adds), req.addition_fee), {},
               <<req.outgoing.id>> \o [j \in 1..upto |-> adds[j].id],
               e \in {"", "utxos unavailable"},
               IF e # "Inscription not found" THEN NoId
               ELSE IF ~first.some THEN req.outgoing.id ELSE adds[k].id)

\* transfer.rs:191-207
ResolveAmount(outcome) ==
  LET ut == get_unspent_outputs_by_mempool_v1(req.wallet, {})
      cands == CardinalUtxos(ut, req.wallet.inscriptions)
      e == IF outcome = "utxos" THEN "utxos unavailable"
           ELSE IF cands = <<>> THEN "wallet contains no cardinal utxos"
           ELSE ""
  IN  Resolved(e,
               IF cands = <<>> THEN <<>>
               ELSE <<[outpoint |-> cands[1].outpoint, offset |-> 0]>>,
               OutgoingAmountValue(req.outgoing.amount, req.addition_fee),
               {}, <<>>, TRUE, NoId)

Resolve(outcome) ==
  IF req.outgoing.kind = "satpoint" THEN ResolveSatPoint(outcome)
  ELSE IF req.outgoing.kind = "id" /\ brc20_transfer THEN ResolveBrc20(outcome)
  ELSE IF req.outgoing.kind = "id" THEN ResolveLookup(outcome)
  ELSE ResolveAmount(outcome)

(***************************************************************************)
(* TransactionBuilder::build_multi_outgoing_with_value and                 *)
(* build_multi_outgoing_with_op_return (spec 4.3, 4.6): the anchors are    *)
(* the first inputs, an anchor whose outpoint carries an inscription at    *)
(* another satpoint is rejected, cardinal UTXOs are added in key order     *)
(* until the inputs cover value + fee, output 0 pays the recipient         *)
(* `value`, the remainder is change to change[0] unless it is dust, and    *)
(* the OP_RETURN rider, if any, is the last output with value 0.           *)
(***************************************************************************)
OpReturnOutput(op_return) == TxOut(<<0, op_return>>, 0)

AnchorConflicts(sp, inscr) ==
  \E k \in 1..Len(inscr) :
    inscr[k].satpoint.outpoint = sp.outpoint /\ inscr[k].satpoint # sp

build_multi_outgoing(input_type, sps, inscr, ut, recipient, change, fee_rate, value, op_return) ==
  LET anchors == {sps[k].outpoint : k \in 1..Len(sps)}
      Held(k) == \E j \in 1..Len(ut) : ut[j].outpoint = sps[k].outpoint
      AnchorUtxo(k) ==
        LET hit(u) == u.outpoint = sps[k].outpoint IN SelectSeq(ut, hit)[1]
      IsCardinal(u) ==
        u.outpoint \notin anchors /\ u.outpoint \notin InscribedOutpoints(inscr)
      rider == IF op_return.some THEN <<OpReturnOutput(op_return.v)>> ELSE <<>>
      pay == <<TxOut(script_pubkey(recipient), value)>>
      both(c) == pay \o <<TxOut(script_pubkey(change[1]), c)>>
  IN  IF \E k \in 1..Len(sps) : ~Held(k) \/ AnchorConflicts(sps[k], inscr)
        THEN [ok |-> FALSE, tx |-> NoTx]
        ELSE
          LET pool == [k \in 1..Len(sps) |-> AnchorUtxo(k)]
                        \o SelectSeq(ut, IsCardinal)
              Total(n) == SumSeq([k \in 1..n |-> pool[k].amount])
              Covers(n) ==
                Total(n) >= value + CommitFee(input_type, n, pay \o rider,
                                              fee_rate)
              enough == {n \in Len(sps)..Len(pool) : Covers(n)}
          IN  IF enough = {}
                THEN [ok |-> FALSE, tx |-> NoTx]
                ELSE
                  LET n == CHOOSE m \in enough : \A q \in enough : m <= q
                      c == Total(n) - value
                           - CommitFee(input_type, n, both(0) \o rider,
                                       fee_rate)
                      ins == UnsignedInputs(SubSeq(pool, 1, n))
                  IN  IF c >= dust_value(script_pubkey(change[1]))
                        THEN [ok |-> TRUE, tx |-> Tx(ins, both(c) \o rider)]
                        ELSE [ok |-> TRUE, tx |-> Tx(ins, pay \o rider)]

(***************************************************************************)
(* Transfer::build, in three steps: the checks of the request, the match   *)
(* on the outgoing, the funding of the transaction.                        *)
(***************************************************************************)
\* the state of an invocation that has not started
Unstarted ==
  /\ pc = "start"
  /\ i = 0
  /\ utxos = <<>>
  /\ inscriptions = <<>>
  /\ satpoint = NoSatpoint
  /\ reveal_fees = <<>>
  /\ next_remain_fees = <<>>
  /\ sized = <<>>
  /\ service_fee = 0
  /\ commit_value = 0
  /\ unsigned_commit_tx = NoTx
  /\ commit_vout = 0
  /\ reveal_txs = <<>>
  /\ key_pair = 0
  /\ result = [status |-> "none"]
  /\ satpoints = <<>>
  /\ amount = 0
  /\ remain_outpoint = {}
  /\ lookups = <<>>
  /\ unsigned_transaction = NoTx
  /\ response = NoResponse

\* the state of an invocation that has not started, nothing else in flight
Fresh == Unstarted /\ suspended = NoInvocation

TransferInit ==
  /\ \E src \in Sources, dst \in TransferDestinations, out \in Outgoings,
        adds \in AdditionLists, fee \in AdditionFees,
        brc20 \in {None, Some(1), Some(0)}, op \in {None, Some(9)},
        w \in TransferWallets :
       req = TransferRequest(src, dst, out, adds, fee, brc20, op, 1, w)
  /\ Fresh

TransferBuild ==
  /\ req.kind = "transfer"
  /\ pc = "start"
  /\ \E outcome \in {"ok", "open", "inscriptions"} :
       LET e == TransferBuildError(outcome)
       IN  IF e # ""
             THEN /\ pc' = "error"
                  /\ result' = Err(e)
                  /\ UNCHANGED inscriptions
             ELSE /\ pc' = "resolve"
                  /\ inscriptions' = req.wallet.inscriptions
                  /\ UNCHANGED result
  /\ UNCHANGED <<req, utxos, mint_vars, other_vars>>

TransferResolve ==
  /\ pc = "resolve"
  /\ \E outcome \in {"ok", "lookup", "utxos"} :
       LET r == Resolve(outcome)
       IN  /\ lookups' = r.lookups
           /\ remain_outpoint' =
                IF r.queried THEN r.remain ELSE remain_outpoint
           /\ IF r.err # ""
                THEN /\ pc' = "error"
                     /\ result' = [status |-> "err", msg |-> r.err,
                                   id |-> r.missing]
                     /\ UNCHANGED <<utxos, satpoints, amount>>
                ELSE /\ pc' = "fund"
                     /\ satpoints' = r.satpoints
                     /\ amount' = r.amount
                     /\ utxos' =
                          get_unspent_outputs_by_mempool_v1(req.wallet, r.remain)
                     /\ UNCHANGED result
  /\ UNCHANGED <<req, inscriptions, mint_vars, unsigned_transaction, response,
                 suspended>>

TransferFund ==
  /\ pc = "fund"
  /\ LET r == build_multi_outgoing(req.source.type, satpoints, inscriptions,
                                   utxos, req.destination,
                                   <<req.source, req.source>>, req.fee_rate,
                                   amount, req.op_return)
     IN  IF ~r.ok
           THEN /\ pc' = "error"
                /\ result' = Err("transaction builder failed")
                /\ UNCHANGED unsigned_transaction
           ELSE /\ pc' = "done"
                /\ unsigned_transaction' = r.tx
                /\ result' = [status |-> "ok", transaction |-> r.tx,
                              network_fee |-> calculate_fee(r.tx, utxos)]
  /\ UNCHANGED <<req, utxos, inscriptions, mint_vars, satpoints, amount,
                 remain_outpoint, lookups, response, suspended>>

TransferNext ==
  \/ TransferBuild
  \/ TransferResolve
  \/ TransferFund

TransferSpec == TransferInit /\ [][TransferNext]_vars

\* the planners that choose a funding anchor themselves, side by side
PlannerSpec == (Init \/ TransferInit) /\ [][Next \/ TransferNext]_vars

(***************************************************************************)
(* The cancel planner, subcommand/wallet/cancel.rs.                        *)
(***************************************************************************)
\* largest number of inputs of a cancel / of transactions of a burt
MaxInputs == 2

\* the unspent outputs the index knows, in key order
ChainUtxos == <<Utxo(21, 0, 50000), Utxo(22, 1, 40000), Utxo(23, 0, 100)>>

\* outpoints a cancel may name: the three above and one the index has not
CancelOutPoints ==
  {OutPoint(<<21>>, 0), OutPoint(<<22>>, 1), OutPoint(<<23>>, 0),
   OutPoint(<<24>>, 0)}

InputLists == UNION {[1..n -> CancelOutPoints] : n \in 0..MaxInputs}

CancelRequest(src, ins, rate) ==
  [kind |-> "cancel", source |-> src, inputs |-> ins, fee_rate |-> rate]

\* Index::get_unspent_outputs_by_outpoints: the entries of the outpoints
\* that are unspent
get_unspent_outputs_by_outpoints(ins) ==
  LET asked(u) == \E k \in 1..Len(ins) : ins[k] = u.outpoint
  IN  SelectSeq(ChainUtxos, asked)

\* cancel.rs:29-60: the first failure before the transaction is laid out,
\* "" if none
CancelBuildError(outcome) ==
  IF ~req.source.net_ok THEN "Address is not valid for network"
  ELSE IF ~AddressTypeOk(req.source)
    THEN "Address type is not valid, only support p2tr and p2wpkh"
  ELSE IF outcome = "open" THEN "index unavailable"
  ELSE IF outcome = "utxos" THEN "utxos unavailable"
  ELSE ""

\* A faulty variant of build_cancel_transaction: the fee is taken on the
\* transaction without its witness placeholders.
build_cancel_transaction_unsized(fee_rate, input, output, input_type) ==
  LET cancel_tx == Tx([k \in 1..Len(input) |-> TxIn(input[k], <<>>)], output)
  IN  [tx |-> cancel_tx, fee |-> Fee(fee_rate, VSize(cancel_tx))]

\* cancel.rs:148-177
build_cancel_transaction(fee_rate, input, output, input_type) ==
  LET cancel_tx ==
        Tx([k \in 1..Len(input) |->
              TxIn(input[k], PlaceholderWitness(input_type))], output)
  IN  [tx |-> cancel_tx, fee |-> Fee(fee_rate, VSize(cancel_tx))]

\* cancel.rs:98-107 / burt.rs:99-108: None when an input is not in the map
get_amount(tx, ut) ==
  LET Held(k) ==
        \E j \in 1..Len(ut) : ut[j].outpoint = tx.input[k].previous_output
      Value(k) ==
        LET hit(u) == u.outpoint = tx.input[k].previous_output
        IN  SelectSeq(ut, hit)[1].amount
  IN  IF \E k \in 1..Len(tx.input) : ~Held(k) THEN None
      ELSE Some(SumSeq([k \in 1..Len(tx.input) |-> Value(k)]))

\* cancel.rs:74-77 / burt.rs:71-74: the output value is set and every
\* witness is emptied
Finalized(tx, value) ==
  Tx([k \in 1..Len(tx.input) |-> TxIn(tx.input[k].previous_output, <<>>)],
     <<TxOut(tx.output[1].script_pubkey, value)>>)

CancelInit ==
  /\ \E src \in Sources, ins \in InputLists, rate \in FeeRates :
       req = CancelRequest(src, ins, rate)
  /\ Fresh

\* cancel.rs:29-60
CancelBuild ==
  /\ req.kind = "cancel"
  /\ pc = "start"
  /\ \E outcome \in {"ok", "open", "utxos"} :
       LET e == CancelBuildError(outcome)
       IN  IF e # ""
             THEN /\ pc' = "error"
                  /\ result' = Err(e)
                  /\ UNCHANGED utxos
             ELSE /\ pc' = "cancel"
                  /\ utxos' = get_unspent_outputs_by_outpoints(req.inputs)
                  /\ UNCHANGED result
  /\ UNCHANGED <<req, inscriptions, mint_vars, other_vars>>

\* cancel.rs:62-91
CancelFinish ==
  /\ req.kind = "cancel"
  /\ pc = "cancel"
  /\ LET output == <<TxOut(script_pubkey(req.source), 0)>>
         built == build_cancel_transaction(req.fee_rate, req.inputs, output,
                                           req.source.type)
         network_fee == built.fee
         input_amount == get_amount(built.tx, utxos)
     IN  IF ~input_amount.some
           THEN /\ pc' = "error"
                /\ result' = Err("wallet contains no cardinal utxos")
                /\ UNCHANGED unsigned_transaction
         ELSE IF input_amount.v <= network_fee
           THEN /\ pc' = "error"
                /\ result' = Err("Input amount less than network fee")
                /\ UNCHANGED unsigned_transaction
         ELSE /\ pc' = "done"
              /\ unsigned_transaction' =
                   Finalized(built.tx, input_amount.v - network_fee)
              /\ result' = [status |-> "ok",
                            transaction |-> unsigned_transaction',
                            network_fee |-> network_fee,
                            commit_vsize |-> VSize(built.tx),
                            commit_fee |-> network_fee]
  /\ UNCHANGED <<req, utxos, inscriptions, mint_vars, satpoints, amount,
                 remain_outpoint, lookups, response, suspended>>

CancelNext ==
  \/ CancelBuild
  \/ CancelFinish

CancelSpec == CancelInit /\ [][CancelNext]_vars

(***************************************************************************)
(* The burt planner, subcommand/wallet/burt.rs.                            *)
(***************************************************************************)
\* the transactions the index can fetch by id: what they spend, signed, and
\* the value of each output they spend
BurtTxids == {31, 32, 33}

KnownTx(t) ==
  IF t = 31
    THEN Tx(<<TxIn(OutPoint(<<21>>, 0), <<[kind |-> "sig"]>>)>>,
            <<TxOut(<<4, 171>>, 49000)>>)
  ELSE Tx(<<TxIn(OutPoint(<<22>>, 1), <<[kind |-> "sig"]>>),
            TxIn(OutPoint(<<23>>, 0), <<[kind |-> "sig"]>>)>>,
          <<TxOut(<<4, 172>>, 30000), TxOut(<<4, 1>>, 9000)>>)

TxKnown(t) == t \in {31, 32}

BurtLists == UNION {[1..n -> BurtTxids] : n \in 0..MaxInputs}

BurtRequest(dst, txs, rate) ==
  [kind |-> "burt", destination |-> dst, burt_txs |-> txs, fee_rate |-> rate]

\* Index::get_txs: the outputs the transactions spend and the transactions
get_txs(ids) ==
  LET spent(u) ==
        \E k \in 1..Len(ids) :
          \E j \in 1..Len(KnownTx(ids[k]).input) :
            KnownTx(ids[k]).input[j].previous_output = u.outpoint
  IN  [burt_utxo |-> SelectSeq(ChainUtxos, spent),
       burt_txs |-> [k \in 1..Len(ids) |-> KnownTx(ids[k])]]

\* burt.rs:37-57: the first failure before the transaction is laid out, ""
\* if none
BurtBuildError(outcome) ==
  IF ~(req.burt_txs = <<>>) THEN "Burt txs is empty"
  ELSE IF ~req.destination.net_ok THEN "Address is not valid for network"
  ELSE IF outcome = "open" THEN "index unavailable"
  ELSE IF outcome = "txs" \/ \E k \in 1..Len(req.burt_txs) : ~TxKnown(req.burt_txs[k])
    THEN "txs unavailable"
  ELSE ""

\* burt.rs:149-173
build_burt_transaction(fee_rate, burt_txs, output) ==
  LET input == Flatten([k \in 1..Len(burt_txs) |-> burt_txs[k].input])
      last_output_amount ==
        SumSeq([k \in 1..Len(burt_txs) |->
                  SumSeq([j \in 1..Len(burt_txs[k].output) |->
                            burt_txs[k].output[j].value])])
      update_burt_tx == Tx(input, output)
  IN  [tx |-> update_burt_tx, fee |-> Fee(fee_rate, VSize(update_burt_tx)),
       last_output_amount |-> last_output_amount]

BurtInit ==
  /\ \E dst \in TransferDestinations, txs \in BurtLists, rate \in FeeRates :
       req = BurtRequest(dst, txs, rate)
  /\ Fresh

\* burt.rs:37-57; the transactions fetched are kept in reveal_txs, the
\* outputs they spend in utxos
BurtBuild ==
  /\ req.kind = "burt"
  /\ pc = "start"
  /\ \E outcome \in {"ok", "open", "txs"} :
       LET e == BurtBuildError(outcome)
       IN  IF e # ""
             THEN /\ pc' = "error"
                  /\ result' = Err(e)
                  /\ UNCHANGED <<utxos, reveal_txs>>
             ELSE /\ pc' = "burt"
                  /\ utxos' = get_txs(req.burt_txs).burt_utxo
                  /\ reveal_txs' = get_txs(req.burt_txs).burt_txs
                  /\ UNCHANGED result
  /\ UNCHANGED <<req, inscriptions, i, satpoint, reveal_fees, next_remain_fees,
                 sized, service_fee, commit_value, unsigned_commit_tx,
                 commit_vout, key_pair, other_vars>>

\* burt.rs:59-91
BurtFinish ==
  /\ req.kind = "burt"
  /\ pc = "burt"
  /\ LET output == <<TxOut(script_pubkey(req.destination), 0)>>
         built == build_burt_transaction(req.fee_rate, reveal_txs, output)
         network_fee == built.fee
         input_amount == get_amount(built.tx, utxos)
     IN  IF ~input_amount.some
           THEN /\ pc' = "error"
                /\ result' = Err("wallet contains no cardinal utxos")
                /\ UNCHANGED unsigned_transaction
         ELSE IF input_amount.v <= network_fee
           THEN /\ pc' = "error"
                /\ result' = Err("Input amount less than network fee")
                /\ UNCHANGED unsigned_transaction
         ELSE /\ pc' = "done"
              /\ unsigned_transaction' =
                   Finalized(built.tx, input_amount.v - network_fee)
              /\ result' = [status |-> "ok",
                            transaction |-> unsigned_transaction',
                            network_fee |-> network_fee,
                            service_fee |-> 0,
                            commit_vsize |-> VSize(built.tx),
                            commit_fee |-> network_fee,
                            last_output_amount |-> built.last_output_amount]
  /\ UNCHANGED <<req, utxos, inscriptions, mint_vars, satpoints, amount,
                 remain_outpoint, lookups, response, suspended>>

BurtNext ==
  \/ BurtBuild
  \/ BurtFinish

BurtSpec == BurtInit /\ [][BurtNext]_vars

(***************************************************************************)
(* The HTTP shim (server/main.rs): _handle_request routes one request and  *)
(* returns a response or an error, handle_request turns what the route     *)
(* returned into the response that is sent.  A text is a sequence of       *)
(* words; a body that is the serialized Output of a call is <<"json">>.    *)
(***************************************************************************)
\* the POST routes that run a planner (main.rs:265-702)
PlannerRoutes == {"mint", "mints", "transfer", "transferWithFee", "cancel", "mintWithPostage", "unsafeMintWithPostage", "mintsWithPostage", "reMint", "reMints"}

\* req.method()
HttpVerbs == {"GET", "POST"}

\* req.uri().path().split('/').skip(1) (main.rs:218)
HttpPaths == {<<"query", "inscription", "addr">>, <<"query", "inscription">>, <<"query", "rune">>, <<"isWhitelist">>, <<"status">>, <<"">>} \cup {<<r>> : r \in PlannerRoutes}

\* the body of a request: one that cannot be read, one that is not the
\* JSON of the route's form, or a form with its method field and with
\* params that convert or do not (FeeRate::try_from, Outgoing::from_str,
\* OutPoint::from_str, Txid::from_str)
HttpBodies == {[read |-> "unreadable", method |-> "", params |-> "ok"], [read |-> "malformed", method |-> "", params |-> "ok"]} \cup [read : {"form"}, method : PlannerRoutes \cup {"isWhitelist", "bogus"}, params : {"ok", "bad"}]

\* an error and the component that raised it
HttpError(origin, text) == [origin |-> origin, text |-> text]

NoError == HttpError("", <<>>)

\* errors of the planners (transfer.rs:197, cancel.rs:72)
PlannerErrors == {HttpError("planner", <<"wallet", "contains", "no", "cardinal", "utxos">>), HttpError("planner", <<"Input", "amount", "less", "than", "network", "fee">>)}

\* an error of the SQL store under pressure
DatabaseErrors == {HttpError("database", <<"Database", "pool", "timed", "out">>)}

\* what the one call of a route into a planner or a collaborator does
CallOutcomes == {[k |-> "ok", error |-> NoError], [k |-> "panic", error |-> NoError]} \cup {[k |-> "err", error |-> e] : e \in PlannerErrors \cup DatabaseErrors}

\* the outcomes the call of a route can have: the SQL lookups fail with
\* database errors only, is_whitelist returns no Result (main.rs:248-250),
\* a request that reaches no call has none
PossibleCall(verb, path, call) ==
  IF verb = "GET" /\ path[1] = "query"
    THEN call.k = "err" => call.error \in DatabaseErrors
  ELSE IF verb = "POST" /\ path[1] = "isWhitelist"
    THEN call.k # "err"
  ELSE IF verb = "POST" /\ path[1] \in PlannerRoutes
    THEN TRUE
  ELSE call.k = "ok"

HttpRequest(verb, path, body, mysql, call) == [kind |-> "http", verb |-> verb, path |-> path, body |-> body, mysql |-> mysql, call |-> call]

\* Response<Body>: status and body text
Response(status, body) == [status |-> status, body |-> body]

\* what _handle_request returns, or that the task panicked
HttpOk(r) == [status |-> "http_ok", response |-> r, error |-> NoError]

HttpErr(e) == [status |-> "http_err", response |-> NoResponse, error |-> e]

Panicked == [status |-> "panic", response |-> NoResponse, error |-> NoError]

\* main.rs:730, 748
TooFrequent == <<"API", "requests", "are", "too", "frequent,", "please", "try", "again", "later">>

\* the result of the call of a route: Ok is serialized into the body
CallResult(r) ==
  IF r.call.k = "panic" THEN Panicked
  ELSE IF r.call.k = "err" THEN HttpErr(r.call.error)
  ELSE HttpOk(Response(200, <<"json">>))

\* main.rs:233-264
IsWhitelistRoute(r) ==
  IF r.body.read = "unreadable" THEN HttpErr(HttpError("shim", <<"error", "reading", "a", "body", "from", "connection">>))
  ELSE IF r.body.read = "malformed" THEN HttpOk(Response(200, <<"Invalid", "form", "data">>))
  ELSE IF r.body.method = "isWhitelist"
    THEN IF r.mysql = "none" THEN HttpErr(HttpError("shim", <<"not", "database">>))
         ELSE CallResult(r)
  ELSE HttpOk(Response(404, <<"Method", "not", "found">>))

\* main.rs:265-702: every planner route has the shape of main.rs:265-307;
\* cancel converts its inputs before it looks at the method (main.rs:461-464)
PlannerRoute(r) ==
  IF r.body.read = "unreadable" THEN HttpErr(HttpError("shim", <<"error", "reading", "a", "body", "from", "connection">>))
  ELSE IF r.body.read = "malformed" THEN HttpOk(Response(200, <<"Invalid", "form", "data">>))
  ELSE IF r.path[1] = "cancel" /\ r.body.params = "bad" THEN HttpErr(HttpError("shim", <<"invalid", "params">>))
  ELSE IF r.body.method = r.path[1]
    THEN IF r.body.params = "bad" THEN HttpErr(HttpError("shim", <<"invalid", "params">>))
         ELSE CallResult(r)
  ELSE HttpOk(Response(404, <<"Method", "not", "found">>))

\* main.rs:222-232
QueryRoute(r) ==
  IF Len(r.path) >= 2 /\ r.path[2] = "inscription"
    THEN IF Len(r.path) < 3 THEN HttpErr(HttpError("shim", <<"not", "found", "address">>))
         ELSE IF r.mysql = "none" THEN HttpErr(HttpError("shim", <<"not", "database">>))
         ELSE CallResult(r)
  ELSE HttpOk(Response(200, <<"get", "not", "recognize">>))

\* main.rs:211-712
_handle_request(r) ==
  IF r.verb = "GET" /\ r.path[1] = "query" THEN QueryRoute(r)
  ELSE IF r.verb = "POST" /\ r.path[1] = "isWhitelist" THEN IsWhitelistRoute(r)
  ELSE IF r.verb = "POST" /\ r.path[1] \in PlannerRoutes THEN PlannerRoute(r)
  ELSE HttpOk(Response(404, <<>>))

\* char::to_lowercase on the capitalized words of the texts
LowerWord(w) ==
  CASE w = "Database" -> "database"
    [] w = "Input" -> "input"
    [] w = "Invalid" -> "invalid"
    [] w = "Method" -> "method"
    [] w = "API" -> "api"
    [] OTHER -> w

\* str::to_lowercase (main.rs:726)
to_lowercase(text) == [k \in DOMAIN text |-> LowerWord(text[k])]

\* str::contains for a pattern of one word (main.rs:727)
contains(text, word) == \E k \in DOMAIN text : text[k] = word

\* a variant of final_error that decides by the origin of the error
final_error_by_origin(e) == IF e.origin = "database" THEN TooFrequent ELSE e.text

\* main.rs:726-731
final_error(e) == IF contains(to_lowercase(e.text), "database") THEN TooFrequent ELSE e.text

\* A faulty variant of handle_request: the route is run in place, so a
\* panic unwinds through the call and no response is produced.
handle_request_unspawned(inner) ==
  IF inner.status = "panic" THEN NoResponse
  ELSE IF inner.status = "http_err" THEN Response(400, final_error(inner.error))
  ELSE inner.response

\* main.rs:714-756: the response for what the spawned task returned
handle_request(inner) ==
  IF inner.status = "panic" THEN Response(400, TooFrequent)
  ELSE IF inner.status = "http_err" THEN Response(400, final_error(inner.error))
  ELSE inner.response

ServerInit ==
  /\ \E verb \in HttpVerbs, path \in HttpPaths, body \in HttpBodies, mysql \in {"none", "plain"}, call \in CallOutcomes :
       /\ PossibleCall(verb, path, call)
       /\ req = HttpRequest(verb, path, body, mysql, call)
  /\ Fresh

\* the spawned task runs _handle_request (main.rs:721-722)
HandleRoute ==
  /\ req.kind = "http"
  /\ pc = "start"
  /\ pc' = "routed"
  /\ result' = _handle_request(req)
  /\ UNCHANGED <<req, utxos, inscriptions, mint_vars, other_vars>>

\* the task is joined and the response is sent (main.rs:723-755)
HandleRequest ==
  /\ req.kind = "http"
  /\ pc = "routed"
  /\ pc' = "done"
  /\ response' = handle_request(result)
  /\ UNCHANGED <<req, utxos, inscriptions, mint_vars, result, satpoints, amount, remain_outpoint, lookups, unsigned_transaction, suspended>>

ServerNext ==
  \/ HandleRoute
  \/ HandleRequest

ServerSpec == ServerInit /\ [][ServerNext]_vars

(***************************************************************************)
(* The reorg binary (reorg/main.rs): main parses its arguments, opens the  *)
(* index and calls reorg_height; the process ends when main returns or a   *)
(* panic unwinds it.                                                       *)
(***************************************************************************)
\* --chain: the four names main tells apart and one it does not
Chains == {"main", "regtest", "signet", "test", "bogus"}

\* reorg/main.rs:86-91
NetworkOf(chain) ==
  CASE chain = "main" -> "bitcoin"
    [] chain = "regtest" -> "regtest"
    [] chain = "signet" -> "signet"
    [] OTHER -> "testnet"

\* --target-height: absent, not a number, or a height
TargetHeights == {[given |-> FALSE, parses |-> FALSE, v |-> 0], [given |-> TRUE, parses |-> FALSE, v |-> 0], [given |-> TRUE, parses |-> TRUE, v |-> 0], [given |-> TRUE, parses |-> TRUE, v |-> 800000]}

\* what the collaborators under main do: MysqlDatabase::new, Index::open /
\* Index::open_with_mysql, Index::reorg_height
ReorgOutcomes == [mysql_new : {"ok", "err"}, open : {"ok", "err"}, reorg_height : {"ok", "err"}]

ReorgRequest(chain, height, host, username, password, outcomes) == [kind |-> "reorg", chain |-> chain, target_height |-> height, mysql_host |-> host, mysql_username |-> username, mysql_password |-> password, outcomes |-> outcomes]

\* reorg/main.rs:137: the SQL store is used only with all three credentials
UseMysql == req.mysql_host /\ req.mysql_username /\ req.mysql_password

\* how the process ended: main returned (status 0), or a panic unwound it
\* (status 101); `log` is the last line logged
Exited(code, log) == [status |-> "exit", code |-> code, log |-> log]

ReorgInit ==
  /\ \E chain \in Chains, height \in TargetHeights, host \in BOOLEAN, username \in BOOLEAN, password \in BOOLEAN, outcomes \in ReorgOutcomes :
       req = ReorgRequest(chain, height, host, username, password, outcomes)
  /\ Fresh

\* reorg/main.rs:9-145: the arguments and the choice of the store
ReorgArguments ==
  /\ req.kind = "reorg"
  /\ pc = "start"
  /\ IF ~req.target_height.given \/ ~req.target_height.parses
       THEN \* unwrap of None, expect("Target height must right") (main.rs:112-115)
            /\ pc' = "exited"
            /\ result' = Exited(101, "panic")
     ELSE IF UseMysql /\ req.outcomes.mysql_new = "err"
       THEN \* MysqlDatabase::new(..).unwrap() (main.rs:143)
            /\ pc' = "exited"
            /\ result' = Exited(101, "panic")
     ELSE /\ pc' = "open"
          /\ result' = [status |-> "running", network |-> NetworkOf(req.chain), mysql |-> UseMysql]
  /\ UNCHANGED <<req, utxos, inscriptions, mint_vars, other_vars>>

\* reorg/main.rs:147-151, 153, 161-163: Index::open or Index::open_with_mysql
ReorgOpen ==
  /\ req.kind = "reorg"
  /\ pc = "open"
  /\ IF req.outcomes.open = "err"
       THEN /\ pc' = "exited"
            /\ result' = Exited(0, "Index reorg error")
       ELSE /\ pc' = "reorg"
            /\ UNCHANGED result
  /\ UNCHANGED <<req, utxos, inscriptions, mint_vars, other_vars>>

\* reorg/main.rs:154-160: index.reorg_height(target_height)
ReorgHeight ==
  /\ req.kind = "reorg"
  /\ pc = "reorg"
  /\ pc' = "exited"
  /\ result' = IF req.outcomes.reorg_height = "err"
                 THEN Exited(0, "Index reorg error")
                 ELSE Exited(0, "Index reorg success")
  /\ UNCHANGED <<req, utxos, inscriptions, mint_vars, other_vars>>

ReorgNext ==
  \/ ReorgArguments
  \/ ReorgOpen
  \/ ReorgHeight

ReorgSpec == ReorgInit /\ [][ReorgNext]_vars

(***************************************************************************)
(* Two mint requests in flight at once.  The server spawns one task per    *)
(* request (server/main.rs:721, 925-940) and the tasks share nothing that  *)
(* the planner writes: each has its own request, views and locals.  The    *)
(* variables hold the invocation that runs; the other one waits in         *)
(* `suspended` until the scheduler switches to it.                         *)
(***************************************************************************)
\* everything one invocation of Mint::build owns
Invocation == [req |-> req, pc |-> pc, i |-> i, utxos |-> utxos, inscriptions |-> inscriptions, satpoint |-> satpoint, reveal_fees |-> reveal_fees, next_remain_fees |-> next_remain_fees, sized |-> sized, service_fee |-> service_fee, commit_value |-> commit_value, unsigned_commit_tx |-> unsigned_commit_tx, commit_vout |-> commit_vout, reveal_txs |-> reveal_txs, key_pair |-> key_pair, result |-> result]

\* an invocation for request r that has not started
NewInvocation(r) == [req |-> r, pc |-> "start", i |-> 0, utxos |-> <<>>, inscriptions |-> <<>>, satpoint |-> NoSatpoint, reveal_fees |-> <<>>, next_remain_fees |-> <<>>, sized |-> <<>>, service_fee |-> 0, commit_value |-> 0, unsigned_commit_tx |-> NoTx, commit_vout |-> 0, reveal_txs |-> <<>>, key_pair |-> 0, result |-> [status |-> "none"]]

\* the requests of the two tasks: the same source and server configuration,
\* each with its content and repeat count, each served the wallet view of
\* the moment it asks (the same view, or another one)
ConcurrentWallets == {w \in Wallets : w.utxos # <<>>}

ConcurrentRequest(content, repeat, wallet) == MintRequest([source |-> Addr("P2TR", 1, TRUE), destination |-> NoAddr, service_address |-> Addr("P2TR", 3, TRUE), service_fee |-> None, fee_rate |-> 1, mysql |-> "none", wallet |-> wallet], <<content>>, repeat)

ConcurrentInit ==
  /\ \E x1 \in {1, 2}, x2 \in {1, 2}, r1 \in {None, Some(2)}, r2 \in {None, Some(2)}, w1 \in ConcurrentWallets, w2 \in ConcurrentWallets :
       /\ req = ConcurrentRequest(x1, r1, w1)
       /\ suspended = NewInvocation(ConcurrentRequest(x2, r2, w2))
  /\ Unstarted

\* the scheduler runs the other task: no lock or queue orders the two
\* (server/main.rs:721, 930-938)
Switch ==
  /\ suspended # NoInvocation
  /\ suspended' = Invocation
  /\ req' = suspended.req
  /\ pc' = suspended.pc
  /\ i' = suspended.i
  /\ utxos' = suspended.utxos
  /\ inscriptions' = suspended.inscriptions
  /\ satpoint' = suspended.satpoint
  /\ reveal_fees' = suspended.reveal_fees
  /\ next_remain_fees' = suspended.next_remain_fees
  /\ sized' = suspended.sized
  /\ service_fee' = suspended.service_fee
  /\ commit_value' = suspended.commit_value
  /\ unsigned_commit_tx' = suspended.unsigned_commit_tx
  /\ commit_vout' = suspended.commit_vout
  /\ reveal_txs' = suspended.reveal_txs
  /\ key_pair' = suspended.key_pair
  /\ result' = suspended.result
  /\ UNCHANGED <<satpoints, amount, remain_outpoint, lookups, unsigned_transaction, response>>

ConcurrentNext ==
  \/ Build
  \/ SelectSatpoint
  \/ SizingStep
  \/ CommitStep
  \/ RevealStep
  \/ BuildOutput
  \/ Switch

ConcurrentSpec == ConcurrentInit /\ [][ConcurrentNext]_vars

(***************************************************************************)
(* The server with two requests in flight and more to come: hyper calls    *)
(* handle_request once per request (server/main.rs:925-940) and every call *)
(* runs its route in a task of its own (main.rs:721).  The variables hold  *)
(* the request whose task runs; the other waits in `suspended`.            *)
(***************************************************************************)
\* what one call of handle_request owns
Call == [req |-> req, pc |-> pc, result |-> result, response |-> response]

\* a call for request r that has not started
NewCall(r) == [req |-> r, pc |-> "start", result |-> [status |-> "none"], response |-> NoResponse]

\* the requests served: a mint whose planner returns, fails or panics, a
\* mint with a malformed body, and a lookup on a server without SQL store
ServedRequests == {HttpRequest("POST", <<"mint">>, [read |-> "form", method |-> "mint", params |-> "ok"], "plain", call) : call \in CallOutcomes} \cup {HttpRequest("POST", <<"mint">>, [read |-> "malformed", method |-> "", params |-> "ok"], "plain", [k |-> "ok", error |-> NoError]), HttpRequest("GET", <<"query", "inscription", "addr">>, [read |-> "form", method |-> "", params |-> "ok"], "none", [k |-> "ok", error |-> NoError])}

ServingInit ==
  /\ \E r1 \in ServedRequests, r2 \in ServedRequests :
       /\ req = r1
       /\ suspended = NewCall(r2)
  /\ Unstarted

\* the scheduler runs the task of the other request
SwitchCall ==
  /\ req.kind = "http"
  /\ suspended # NoInvocation
  /\ suspended' = Call
  /\ req' = suspended.req
  /\ pc' = suspended.pc
  /\ result' = suspended.result
  /\ response' = suspended.response
  /\ UNCHANGED <<utxos, inscriptions, mint_vars, satpoints, amount, remain_outpoint, lookups, unsigned_transaction>>

\* the connection of an answered request sends the next one
\* (main.rs:929-938: service_fn calls handle_request for every request)
Accept ==
  /\ req.kind = "http"
  /\ suspended # NoInvocation
  /\ pc = "done"
  /\ req' \in ServedRequests
  /\ pc' = "start"
  /\ result' = [status |-> "none"]
  /\ response' = NoResponse
  /\ UNCHANGED <<utxos, inscriptions, mint_vars, satpoints, amount, remain_outpoint, lookups, unsigned_transaction, suspended>>

ServingNext ==
  \/ HandleRoute
  \/ HandleRequest
  \/ SwitchCall
  \/ Accept

ServingSpec == ServingInit /\ [][ServingNext]_vars

\* the source address is on the whitelist of the SQL store
SourceWhitelisted == req.mysql = "whitelist"

\* the fee configured for one inscription (mint.rs:49, 117 / mints.rs:123)
ConfiguredServiceFee == unwrap_or(req.service_fee, SERVICE_FEE)

\* C12: in every mint (repeat or batch) whose source is whitelisted the
\* service fee is bypassed: the commit funding target has no service-fee
\* component, no reveal has a service output and the reported service_fee
\* is 0; for a source that is not whitelisted the configured fee (3000
\* sats per inscription when unset) is charged.
C12_WhitelistBypassesServiceFee ==
  /\ SourceWhitelisted =>
       /\ CommitRequested =>
            commit_value = SumSeq(reveal_fees) + TARGET_POSTAGE * Repeat
       /\ \A k \in 1..Len(reveal_txs) :
            ServiceOutputs(reveal_txs[k].output) = {}
       /\ pc = "done" => result.service_fee = 0
  /\ (~SourceWhitelisted /\ pc = "done") =>
       result.service_fee >= ConfiguredServiceFee * Repeat

IsTransfer == req.kind = "transfer"

\* a mint, or a transfer of an amount: no anchor comes with the request
ChoosesAnchor == IsMint \/ IsMints \/ (IsTransfer /\ req.outgoing.kind = "amount")

\* the UTXO view the planner of the request is served
WalletView ==
  IF IsTransfer THEN get_unspent_outputs_by_mempool_v1(req.wallet, {})
  ELSE req.wallet.utxos

\* sp is at offset 0 of the first output of the view, in key order, that is
\* not the outpoint of any entry of the inscription index
IsFirstCardinal(sp) ==
  /\ sp.offset = 0
  /\ \E k \in 1..Len(WalletView) :
       /\ WalletView[k].outpoint = sp.outpoint
       /\ sp.outpoint \notin InscribedOutpoints(req.wallet.inscriptions)
       /\ \A j \in 1..(k - 1) :
            WalletView[j].outpoint \in InscribedOutpoints(req.wallet.inscriptions)

NoCardinal ==
  \A k \in 1..Len(WalletView) :
    WalletView[k].outpoint \in InscribedOutpoints(req.wallet.inscriptions)

\* the errors of the checks that precede the choice of the anchor
EarlierErrors ==
  {"index unavailable", "Address is not valid for network",
   "Address type is not valid, only support p2tr and p2wpkh",
   "utxos unavailable", "inscriptions unavailable"}

\* C11: the anchor a mint or an amount-mode transfer chooses is, at offset
\* 0, the first outpoint of the wallet UTXO set in key order that is not
\* the outpoint of any entry of the inscription index; when every wallet
\* UTXO is inscribed or there is none, the request does not succeed, no
\* transaction is produced, and a request that passed the earlier checks
\* fails with 'wallet contains no cardinal utxos'.
C11_AnchorIsFirstCardinal ==
  ChoosesAnchor =>
    /\ (~IsTransfer /\ satpoint # NoSatpoint) => IsFirstCardinal(satpoint)
    /\ (IsTransfer /\ satpoints # <<>>) =>
         Len(satpoints) = 1 /\ IsFirstCardinal(satpoints[1])
    /\ NoCardinal =>
         /\ pc # "done"
         /\ satpoint = NoSatpoint /\ satpoints = <<>>
         /\ unsigned_commit_tx = NoTx /\ reveal_txs = <<>>
         /\ unsigned_transaction = NoTx
         /\ pc = "error" =>
              result.msg \in EarlierErrors \cup {"wallet contains no cardinal utxos"}

\* an amount-mode transfer funded from the second output of the wallet,
\* the first being inscribed
C11_Witness ==
  /\ IsTransfer
  /\ req.outgoing.kind = "amount"
  /\ pc = "done"
  /\ satpoints = <<SatPointOf(12, 0, 0)>>
  /\ unsigned_transaction.input[1].previous_output = OutPoint(<<12>>, 0)

\* the transfer has resolved its outgoing and asked for a transaction
TransferRequested == IsTransfer /\ pc \in {"fund", "done"}

\* C13: the destination value a transfer requests is TARGET_POSTAGE * (1 +
\* number of additional outgoings) + addition_fee in satpoint mode and in
\* inscription-id mode, with brc20_transfer true or false, and amount +
\* addition_fee in amount mode; a successful transfer pays it at output 0.
C13_TransferDestinationValue ==
  TransferRequested =>
    /\ amount =
         IF req.outgoing.kind = "amount"
           THEN req.outgoing.amount + req.addition_fee
           ELSE TARGET_POSTAGE * (1 + Len(req.addition_outgoing))
                  + req.addition_fee
    /\ pc = "done" => unsigned_transaction.output[1].value = amount

\* some additional outgoing is not of the kind of the primary outgoing
MixedKinds ==
  \E k \in 1..Len(req.addition_outgoing) :
    req.addition_outgoing[k].kind # req.outgoing.kind

\* C14: a transfer with an additional outgoing of another kind than the
\* primary one (satpoint, inscription id or amount) is rejected with an
\* error, and a transfer that succeeds has one anchor for the primary and
\* one for every additional outgoing: none is silently ignored.
C14_MixedOutgoingsRejected ==
  IsTransfer =>
    /\ MixedKinds => ~TransferRequested
    /\ pc = "done" => Len(satpoints) = 1 + Len(req.addition_outgoing)

\* C15: a transfer whose destination address type is neither P2TR nor
\* P2WPKH does not succeed and builds no transaction, whatever the type
\* of the source address.
C15_DestinationTypeRejected ==
  (IsTransfer /\ ~AddressTypeOk(req.destination)) =>
    pc # "done" /\ unsigned_transaction = NoTx

\* the ids of a transfer by inscription id, primary first
RequestedIds ==
  <<req.outgoing.id>>
    \o [k \in 1..Len(req.addition_outgoing) |-> req.addition_outgoing[k].id]

\* C16: in a transfer by inscription id with brc20_transfer = true no id is
\* looked up, the anchor of the primary id and of every additional id is
\* (outpoint = (id.txid, 0), offset = 0), and the UTXO view is queried with
\* exactly these outpoints whitelisted; with brc20_transfer = false the
\* whitelist is empty, every id is looked up and its anchor is the satpoint
\* found, and an id without a satpoint fails the request with
\* 'Inscription <id> not found'.
C16_Brc20AnchorSynthesized ==
  (IsTransfer /\ req.outgoing.kind = "id") =>
    /\ brc20_transfer =>
         /\ lookups = <<>>
         /\ TransferRequested =>
              /\ satpoints =
                   [k \in 1..Len(RequestedIds) |->
                      [outpoint |-> [txid |-> RequestedIds[k].txid, vout |-> 0],
                       offset |-> 0]]
              /\ remain_outpoint =
                   {[txid |-> RequestedIds[k].txid, vout |-> 0] :
                      k \in 1..Len(RequestedIds)}
              /\ utxos = get_unspent_outputs_by_mempool_v1(req.wallet,
                                                           remain_outpoint)
    /\ ~brc20_transfer =>
         /\ remain_outpoint = {}
         /\ TransferRequested =>
              /\ lookups = RequestedIds
              /\ \A k \in 1..Len(RequestedIds) :
                   /\ get_inscription_satpoint_by_id(req.wallet,
                                                     RequestedIds[k]).some
                   /\ satpoints[k] =
                        get_inscription_satpoint_by_id(req.wallet,
                                                       RequestedIds[k]).v
              /\ utxos = get_unspent_outputs_by_mempool_v1(req.wallet, {})
         /\ (pc = "error" /\ lookups # <<>> /\ result.msg # "index unavailable"
               /\ ~get_inscription_satpoint_by_id(req.wallet, Last(lookups)).some) =>
              result = [status |-> "err", msg |-> "Inscription not found",
                        id |-> Last(lookups)]

\* a brc20 transfer of an inscription that has left its birth output: the
\* birth output, which the view leaves out unless whitelisted, is spent
C16_Witness ==
  /\ IsTransfer
  /\ req.outgoing = OutgoingInscriptionId(InscriptionId(14))
  /\ req.addition_outgoing = <<>>
  /\ brc20_transfer
  /\ pc = "done"
  /\ lookups = <<>>
  /\ remain_outpoint = {OutPoint(<<14>>, 0)}
  /\ unsigned_transaction.input[1].previous_output = OutPoint(<<14>>, 0)

IsCancel == req.kind = "cancel"

\* value of the unspent output at op
ChainValue(op) ==
  LET hit(u) == u.outpoint = op IN SelectSeq(ChainUtxos, hit)[1].amount

Unspent(op) == \E k \in 1..Len(ChainUtxos) : ChainUtxos[k].outpoint = op

AllInputsUnspent == \A k \in 1..Len(req.inputs) : Unspent(req.inputs[k])

\* summed value of the inputs of the request
InputSum == SumSeq([k \in 1..Len(req.inputs) |-> ChainValue(req.inputs[k])])

\* virtual size of the cancel transaction, every input carrying the
\* placeholder witness of the source's address type
PlaceholderVSize ==
  4 + 1 + 41 * Len(req.inputs) + 1 + 9
    + ScriptPubkeyLen(script_pubkey(req.source)) + 4
    + IF req.inputs = <<>> THEN 0
      ELSE (2 + Len(req.inputs)
                  * (IF req.source.type = "P2TR" THEN 66 ELSE 107) + 3) \div 4

\* C17: a cancel succeeds only if the inputs sum to more than the fee of
\* the placeholder-witness vsize; the transaction then has one output
\* paying the source script (input sum - fee), its inputs are the requested
\* outpoints in request order with empty witnesses, and network_fee =
\* commit_fee; when the sum is <= the fee or an outpoint is not unspent, the
\* cancel does not succeed and returns no transaction.
C17_CancelNetValue ==
  IsCancel =>
    /\ pc = "done" =>
         /\ AllInputsUnspent
         /\ InputSum > req.fee_rate * PlaceholderVSize
         /\ unsigned_transaction.output =
              <<TxOut(script_pubkey(req.source),
                      InputSum - req.fee_rate * PlaceholderVSize)>>
         /\ unsigned_transaction.input =
              [k \in 1..Len(req.inputs) |-> TxIn(req.inputs[k], <<>>)]
         /\ result.transaction = unsigned_transaction
         /\ result.network_fee = req.fee_rate * PlaceholderVSize
         /\ result.commit_fee = result.network_fee
    /\ (~AllInputsUnspent \/ InputSum <= req.fee_rate * PlaceholderVSize) =>
         /\ pc # "done"
         /\ unsigned_transaction = NoTx
         /\ result.status # "ok"

\* the cancel of the specification's scenario: X(50_000) and Y(40_000) at
\* fee rate 1
C17_Witness ==
  /\ IsCancel
  /\ pc = "done"
  /\ req.inputs = <<OutPoint(<<21>>, 0), OutPoint(<<22>>, 1)>>
  /\ req.fee_rate = 1
  /\ unsigned_transaction.output[1].value = 90000 - result.network_fee
  /\ result.network_fee > 0

IsBurt == req.kind = "burt"

\* every listed transaction can be fetched and the destination is valid
BurtServable ==
  /\ req.burt_txs # <<>>
  /\ req.destination.net_ok
  /\ \A k \in 1..Len(req.burt_txs) : TxKnown(req.burt_txs[k])

\* the inputs of the listed transactions, concatenated in list order
ListedInputs ==
  Flatten([k \in 1..Len(req.burt_txs) |->
             [j \in 1..Len(KnownTx(req.burt_txs[k]).input) |->
                KnownTx(req.burt_txs[k]).input[j].previous_output]])

\* C18: a burt with a non-empty list of transaction ids that the index can
\* serve does not fail in the planner: once the planner has answered, the
\* answer is a single-output transaction paying the destination, whose
\* inputs are the inputs of the listed transactions concatenated in list
\* order and whose output value is the sum of the input values minus the
\* network fee.
C18_BurtAggregatesInputs ==
  (IsBurt /\ BurtServable) =>
    /\ pc = "error" => result.msg \in {"index unavailable", "txs unavailable"}
    /\ pc = "done" =>
         /\ [k \in 1..Len(unsigned_transaction.input) |->
               unsigned_transaction.input[k].previous_output] = ListedInputs
         /\ unsigned_transaction.output =
              <<TxOut(script_pubkey(req.destination),
                      SumSeq([k \in 1..Len(ListedInputs) |->
                                ChainValue(ListedInputs[k])])
                        - result.network_fee)>>

\* the request has been answered
Answered == req.kind = "http" /\ pc = "done"

\* the routed call, or the route itself, returned an error
ReturnedError == Answered /\ result.status = "http_err"

\* C19: every error returned inside an HTTP request is answered with
\* status 400 whose body is the error string; the errors of the database
\* collaborator are rewritten to 'API requests are too frequent, please try
\* again later', and an error that does not come from the database
\* collaborator keeps its original text.
C19_ErrorsAnswered400 ==
  ReturnedError =>
    /\ response.status = 400
    /\ response.body = final_error_by_origin(result.error)

\* the request is a POST to one of the routes that take a JSON form
PostsForm == req.kind = "http" /\ req.verb = "POST" /\ req.path[1] \in PlannerRoutes \cup {"isWhitelist"}

\* its body is not JSON of the form, or names a method that is not the route's
IsBadRequest == PostsForm /\ (req.body.read = "malformed" \/ (req.body.read = "form" /\ req.body.method # req.path[1]))

\* C20: a request whose body is malformed JSON, or whose method is unknown
\* or is not the method of the route it was sent to, is answered with
\* status 400 and a plain-text body, never with 200 or 404.
C20_BadRequestAnswered400 ==
  (Answered /\ IsBadRequest) => response.status = 400 /\ response.body # <<>>

\* the fields of the Output of a successful mint (mint.rs:124-135)
OutputFields == {"commit", "reveal", "inscription", "service_fee", "satpoint_fee", "network_fee"}

\* the mint ended in an error
MintFailed == req.kind \in {"mint", "mints"} /\ pc = "error"

\* C21: a mint invocation never returns a partial result: when a check of
\* the building pass fails for a reveal at any position, also after earlier
\* reveals were built and signed, or a collaborator call fails, what is
\* returned is the error alone, with no commit transaction, no reveal
\* transactions and no fee figures; an Output is returned only with every
\* reveal in it.
C21_NoPartialResult ==
  /\ MintFailed =>
       /\ result.status = "err"
       /\ DOMAIN result \cap OutputFields = {}
  /\ (req.kind \in {"mint", "mints"} /\ result.status = "ok") =>
       /\ pc = "done"
       /\ OutputFields \subseteq DOMAIN result
       /\ Len(result.reveal) = Repeat

\* a reveal fails its check after the first reveal was built and signed
C21_Witness ==
  /\ MintFailed
  /\ Len(reveal_txs) >= 1
  /\ result.status = "err"

\* the reorg binary has terminated
ReorgExited == req.kind = "reorg" /\ pc = "exited"

\* the index was asked to open, and what it and reorg_height answered
IndexOpenFailed == ReorgExited /\ result.log # "panic" /\ req.outcomes.open = "err"

ReorgSucceeded == ReorgExited /\ result.log # "panic" /\ req.outcomes.open = "ok" /\ req.outcomes.reorg_height = "ok"

\* C22: the reorg binary terminates with exit status 0 when the index opens
\* and reorg_height succeeds, and with a non-zero exit status when opening
\* the index fails.
C22_ReorgExitStatus ==
  /\ ReorgSucceeded => result.code = 0
  /\ IndexOpenFailed => result.code # 0

\* the leaf scripts of the batch have been built
LeavesBuilt == IsMints /\ key_pair # 0

\* the x-only public key pushed in front of OP_CHECKSIG in a leaf script
EmbeddedKey(script) == script.key

\* C23: in a batch-mint every inscription's reveal leaf is controlled by a
\* keypair of its own: for any two positions the public keys embedded in
\* their reveal scripts differ, and every reveal is signed with the key
\* embedded in its own script.
C23_PerInscriptionKeys ==
  LeavesBuilt =>
    /\ \A a \in 0..(Repeat - 1) : \A b \in 0..(Repeat - 1) :
         a # b => EmbeddedKey(reveal_script(a)) # EmbeddedKey(reveal_script(b))
    /\ \A k \in 1..Len(reveal_txs) :
         reveal_txs[k].input[1].witness[1].key = EmbeddedKey(reveal_script(k - 1))

\* the skeleton the sizing pass built for 0-based position i0: the pass
\* runs from the last position to the first and `sized` is in push order
SkeletonOf(i0) == sized[Repeat - i0]

\* the sizes of the items of a witness, in order
WitnessShape(w) == [k \in 1..Len(w) |-> WitnessItemLen(w[k])]

\* the witness build_reveal_transaction sizes position i0 with
SizedWitness(i0) == <<[kind |-> "sig"], [kind |-> "script", script |-> reveal_script(i0)], control_block(i0)>>

\* C24: for every mint and every position, the reveal built by the
\* building pass has as many outputs as the skeleton sized for that
\* position, the same output scripts in the same order and a witness of the
\* same shape, so the fee recomputed on the built reveal equals the fee of
\* the sizing pass for that position.
C24_SizingIsFixedPoint ==
  \A k \in 1..Len(reveal_txs) :
    LET tx == reveal_txs[k]
        skeleton == SkeletonOf(k - 1)
    IN  /\ Len(tx.output) = Len(skeleton)
        /\ \A j \in 1..Len(skeleton) :
             tx.output[j].script_pubkey = skeleton[j].script_pubkey
        /\ WitnessShape(tx.input[1].witness) = WitnessShape(SizedWitness(k - 1))
        /\ Fee(req.fee_rate, VSize(tx)) = reveal_fees[k]

\* a batch of three contents without service fee has been built
C24_Witness ==
  /\ pc = "done"
  /\ Repeat = 3
  /\ Len(reveal_txs) = 3
  /\ IsMints
  /\ service_fee = 0

\* two mint invocations are in flight
TwoInFlight == suspended # NoInvocation

\* both were served the same UTXO view and the same inscription view
SameViews ==
  /\ pc # "start" /\ suspended.pc # "start"
  /\ utxos # <<>>
  /\ utxos = suspended.utxos
  /\ inscriptions = suspended.inscriptions

\* the outpoints a transaction spends
SpentBy(tx) == {tx.input[k].previous_output : k \in 1..Len(tx.input)}

\* C25: two mint invocations for the same source that run at once on the
\* same UTXO and inscription views are not kept apart by the planner: both
\* select the same funding anchor, and when both return, both commit
\* transactions spend the anchor's outpoint.
C25_ConcurrentMintsShareAnchor ==
  (TwoInFlight /\ SameViews) =>
    /\ (satpoint # NoSatpoint /\ suspended.satpoint # NoSatpoint) =>
         satpoint = suspended.satpoint
    /\ (pc = "done" /\ suspended.pc = "done") =>
         /\ satpoint.outpoint \in SpentBy(result.commit)
         /\ satpoint.outpoint \in SpentBy(suspended.result.commit)

\* both invocations returned, with two different commit transactions that
\* spend the same outpoint of the source
C25_Witness ==
  /\ TwoInFlight /\ SameViews
  /\ req.source = suspended.req.source
  /\ pc = "done" /\ suspended.pc = "done"
  /\ result.commit # suspended.result.commit
  /\ SpentBy(result.commit) \cap SpentBy(suspended.result.commit) # {}

\* the commit transaction followed by the reveals built so far
Chain == <<unsigned_commit_tx>> \o reveal_txs

\* the transactions of the chain that have the output a reveal spends
Funding(tx) ==
  {j \in 1..Len(Chain) :
     /\ Txid(Chain[j]) = tx.input[1].previous_output.txid
     /\ tx.input[1].previous_output.vout < Len(Chain[j].output)}

\* the output a reveal spends
SpentOutput(tx) ==
  Chain[CHOOSE j \in Funding(tx) : TRUE].output[tx.input[1].previous_output.vout + 1]

OutputSum(tx) == SumSeq([j \in 1..Len(tx.output) |-> tx.output[j].value])

\* C26: value is conserved along every reveal chain: for every mint (repeat
\* or batch) and every position, the value of the output the reveal spends
\* minus the sum of its output values is the fee sized for that position,
\* the first reveal spending the commit output funded with the requested
\* commit value; so no reveal spends more than its input, and the commit
\* output value is the sum of all reveal fees, postages and the service fee.
C26_ValueConserved ==
  /\ \A k \in 1..Len(reveal_txs) :
       LET tx == reveal_txs[k]
       IN  /\ Funding(tx) # {}
           /\ SpentOutput(tx).value - OutputSum(tx) = reveal_fees[k]
           /\ OutputSum(tx) <= SpentOutput(tx).value
  /\ reveal_txs # <<>> =>
       /\ SpentOutput(reveal_txs[1]) = unsigned_commit_tx.output[commit_vout + 1]
       /\ SpentOutput(reveal_txs[1]).value = commit_value
  /\ pc = "done" =>
       commit_value = SumSeq(reveal_fees) + TARGET_POSTAGE * Repeat + service_fee

\* a repeat-mint of three that pays a service fee, and was built
C26_Witness ==
  /\ pc = "done"
  /\ IsMint
  /\ Repeat = 3
  /\ service_fee > 0
  /\ Len(reveal_txs) = 3

\* C27: in a batch-mint of two or more contents, every reveal after the
\* first spends outpoint (R0.txid, i) for its position i; output i of R0
\* exists, is locked to the commit address of the leaf of the i-th content
\* and carries the fee sized for position i plus TARGET_POSTAGE; and the
\* prevout the signature of the reveal commits to is that output, locked to
\* the leaf script the reveal reveals.
C27_BatchFanOut ==
  IsMints =>
    \A k \in 2..Len(reveal_txs) :
      LET tx == reveal_txs[k]
          first == reveal_txs[1]
          leaf == reveal_script(k - 1)
      IN  /\ tx.input[1].previous_output = OutPoint(Txid(first), k - 1)
          /\ Len(first.output) >= k
          /\ first.output[k] = TxOut(script_pubkey(commit_tx_address(k - 1)), reveal_fees[k] + TARGET_POSTAGE)
          /\ tx.input[1].witness[1].msg.prevout = first.output[k]
          /\ tx.input[1].witness[1].msg.leaf = leaf
          /\ tx.input[1].witness[2].script = leaf
          /\ first.output[k].script_pubkey = script_pubkey(p2tr_tweaked(output_key(key_pair, leaf)))

\* a batch of three different contents, its last reveal spending output 2
\* of the first
C27_Witness ==
  /\ IsMints
  /\ pc = "done"
  /\ Repeat = 3
  /\ req.content[2] # req.content[3]
  /\ reveal_txs[3].input[1].previous_output.vout = 2

\* the outpoints the request names, each once
NamedOutPoints == {req.inputs[k] : k \in 1..Len(req.inputs)}

\* total value of the distinct unspent outputs the request names
DistinctInputSum ==
  SumSeq([k \in 1..Len(ChainUtxos) |->
            IF ChainUtxos[k].outpoint \in NamedOutPoints
              THEN ChainUtxos[k].amount ELSE 0])

\* C28: for every cancel request, also one whose inputs name the same
\* outpoint more than once, the value of the single output never exceeds
\* the total value of the distinct unspent outputs the request names minus
\* the network fee: no outpoint's value is counted more than once.
C28_CancelCountsOutpointsOnce ==
  (IsCancel /\ pc = "done") =>
    unsigned_transaction.output[1].value <= DistinctInputSum - result.network_fee

\* two calls of handle_request are in flight
TwoCalls == req.kind = "http" /\ suspended # NoInvocation

\* a call has produced its response exactly when it is over, and the
\* response of a call whose task panicked is the 400 of the join
AnsweredOnce(call) ==
  /\ (call.pc = "done") <=> (call.response # NoResponse)
  /\ (call.pc = "done" /\ call.result.status = "panic") =>
       call.response = Response(400, TooFrequent)

\* the running call can take its next step, and the connection of an
\* answered call can send its next request
CanProceed ==
  /\ pc = "start" => ENABLED HandleRoute
  /\ pc = "routed" => ENABLED HandleRequest
  /\ pc = "done" => ENABLED Accept

\* C29: every HTTP request receives exactly one response, also when its
\* handler panics: the panic of the spawned task is caught at the join and
\* answered with status 400 and the body 'API requests are too frequent,
\* please try again later', and it does not keep the server from handling
\* the other request in flight or later requests.
C29_PanicAnsweredOnce ==
  TwoCalls =>
    /\ AnsweredOnce(Call)
    /\ AnsweredOnce(suspended)
    /\ pc \in {"start", "routed", "done"}
    /\ CanProceed

\* one request was answered the 400 of a panic, and the request in flight
\* with it was answered 200 by its planner
C29_Witness ==
  /\ TwoCalls
  /\ pc = "done" /\ result.status = "panic"
  /\ response = Response(400, TooFrequent)
  /\ suspended.pc = "done"
  /\ suspended.response = Response(200, <<"json">>)

\* the mint invocation is over
MintEnded == req.kind \in {"mint", "mints"} /\ pc \in {"done", "error", "panic"}

\* C30: the mint planners never index an empty sequence: for every request,
\* also repeat = 0 in a repeat-mint and an empty content list in a
\* batch-mint, the fee list and the commit-address list are non-empty when
\* their first element is read, so such a request ends in an error result
\* and not in a panic.
C30_NoEmptyIndexing ==
  MintEnded =>
    /\ pc = "panic" => result.msg # "index out of bounds"
    /\ Repeat = 0 => pc = "error"
====
